---------------------------- MODULE Spec2Model ----------------------------
(***************************************************************************)
(* A model of the RPSL lexer of kkirsche/rpsl (package lexer, package      *)
(* token).                                                                 *)
(*                                                                         *)
(* The input text is a sequence of bytes.  An ASCII byte is the one        *)
(* character string of its character; the bytes 0x84, 0x85, 0xA0, 0xA9,    *)
(* 0xAA, 0xC3 and 0xE2 are the strings "x84", "x85", "xA0", "xA9", "xAA",  *)
(* "xC3" and "xE2".  A rune is a string too:                               *)
(* an ASCII rune is its character, other runes are written "U+....".       *)
(* Offsets (start, pos) are byte offsets counted from 0 as in the Go code, *)
(* so the byte at offset p is input[p + 1].                                *)
(*                                                                         *)
(* A state function of the lexer is an operator from a lexer record to a   *)
(* lexer record.  Besides the fields of the Go struct the record carries   *)
(* the bookkeeping of the call: r (the rune the last readRune returned),   *)
(* ok (the boolean the last accept... returned), out (the emits of the     *)
(* call, in order, each with the cursor at the moment of the emit), hung   *)
(* (the call entered a loop that never ends) and next (the state function  *)
(* the call returns).  The producer goroutine runs one state function per  *)
(* ProducerStep and then performs the channel sends of its emits one by    *)
(* one (Send), each send waiting for room in the channel: between two      *)
(* sends the goroutine touches nothing but its own cursor, so the order of *)
(* the channel operations is the order of the Go program.                  *)
(***************************************************************************)
EXTENDS Integers, Sequences, FiniteSets, TLC

\* ------------------------------------------------------------------ bytes

\* const eof = -1
eof == "EOF"

\* utf8.RuneError, what decoding an invalid byte yields (width 1)
RuneError == "U+FFFD"

\* the zero value of a rune (the lastRune field of a fresh Lexer)
NulRune == "U+0000"

\* the bytes of the input alphabet that are not ASCII
NonAscii == {"x84", "x85", "xA0", "xA9", "xAA", "xC3", "xE2"}

\* UTF-8 continuation bytes (10xxxxxx) of the alphabet
ContBytes == {"x84", "x85", "xA0", "xA9", "xAA"}

Lowers == <<"a", "b", "c", "d", "e", "f", "g", "h", "i", "j", "k", "l", "m", "n", "o", "p", "q", "r", "s", "t", "u", "v", "w", "x", "y", "z">>

Uppers == <<"A", "B", "C", "D", "E", "F", "G", "H", "I", "J", "K", "L", "M", "N", "O", "P", "Q", "R", "S", "T", "U", "V", "W", "X", "Y", "Z">>

Range(s) == {s[i] : i \in 1..Len(s)}

\* utf8.DecodeRuneInString(s[p:]) for p < len(s): the rune and its width.
\* 0xC3 followed by a continuation byte is a two byte rune, 0xE2 followed
\* by two continuation bytes a three byte rune (0xE2 0x84 0xAA is the
\* Kelvin sign U+212A; the others are written "U+2xxx"); a continuation
\* byte alone, or a lead byte without its continuation bytes, is invalid:
\* RuneError, width 1.
DecodeRuneInString(s, p) ==
    LET b == s[p + 1] IN
    IF b \notin NonAscii THEN [rune |-> b, width |-> 1]
    ELSE IF b = "xC3" /\ p + 2 <= Len(s) /\ s[p + 2] \in ContBytes
         THEN [rune |-> CASE s[p + 2] = "x84" -> "U+00C4"
                          [] s[p + 2] = "x85" -> "U+00C5"
                          [] s[p + 2] = "xA0" -> "U+00E0"
                          [] s[p + 2] = "xAA" -> "U+00EA"
                          [] OTHER            -> "U+00E9",
               width |-> 2]
    ELSE IF /\ b = "xE2" /\ p + 3 <= Len(s)
            /\ s[p + 2] \in ContBytes /\ s[p + 3] \in ContBytes
         THEN [rune |-> IF s[p + 2] = "x84" /\ s[p + 3] = "xAA"
                        THEN "U+212A" ELSE "U+2xxx",
               width |-> 3]
         ELSE [rune |-> RuneError, width |-> 1]

\* unicode.ToLower / unicode.ToUpper of one rune of the alphabet
ToLowerRune(c) ==
    IF c \in Range(Uppers) THEN Lowers[CHOOSE i \in 1..26 : Uppers[i] = c]
    ELSE IF c = "U+00C5" THEN "U+00E5"
    ELSE IF c = "U+00C4" THEN "U+00E4"
    ELSE IF c = "U+212A" THEN "k" ELSE c

ToUpperRune(c) ==
    IF c \in Range(Lowers) THEN Uppers[CHOOSE i \in 1..26 : Lowers[i] = c]
    ELSE IF c = "U+00E0" THEN "U+00C0"
    ELSE IF c = "U+00EA" THEN "U+00CA"
    ELSE IF c = "U+00E9" THEN "U+00C9" ELSE c

\* the first bytes of strings.ToLower(s[p:]), n of them or a few more:
\* the text is lowered rune by rune, so the three bytes of the Kelvin sign
\* become the one byte k; an ASCII byte is folded; any other rune, and
\* U+FFFD for an invalid byte, lowers to bytes that are not ASCII (the
\* bytes of the source stand for them)
RECURSIVE ToLowerFrom(_, _, _)
ToLowerFrom(s, p, n) ==
    IF n <= 0 \/ p >= Len(s) THEN <<>>
    ELSE LET d == DecodeRuneInString(s, p) IN
         IF d.rune = RuneError
         THEN <<"xEF", "xBF", "xBD">> \o ToLowerFrom(s, p + 1, n - 3)
         ELSE IF ToLowerRune(d.rune) \in Range(Lowers) \/ d.width = 1
         THEN <<ToLowerRune(d.rune)>> \o ToLowerFrom(s, p + d.width, n - 1)
         ELSE SubSeq(s, p + 1, p + d.width)
                  \o ToLowerFrom(s, p + d.width, n - d.width)

\* strings.ToUpper of one byte of a text, as far as a comparison with an
\* ASCII keyword can see it: an ASCII byte is folded, a byte that is not
\* ASCII stays not ASCII (no rune of the alphabet has an ASCII upper case).
ToUpperByte(b) == IF b \in NonAscii THEN b ELSE ToUpperRune(b)

\* the set as the caller passed it, decoded, with no copy in the other case
FoldNone(set) ==
    {IF c \in NonAscii THEN RuneError ELSE c : c \in set}

\* The runes of strings.ToLower(set) + strings.ToUpper(set), for a set of
\* characters given by its bytes: an invalid byte of the literal (0x85 and
\* 0xA0 in whitespace) becomes RuneError in both copies.
Fold(set) ==
    {IF c \in NonAscii THEN RuneError ELSE ToLowerRune(c) : c \in set}
    \cup {IF c \in NonAscii THEN RuneError ELSE ToUpperRune(c) : c \in set}

\* strings.IndexRune(valid, r) >= 0; no string holds the rune eof (-1)
IndexRune(valid, r) == r /= eof /\ r \in valid

\* ------------------------------------------------------ character classes

alpha == Range(Lowers)

digits == {"0", "1", "2", "3", "4", "5", "6", "7", "8", "9"}

hexDigits == digits \cup {"A", "B", "C", "D", "E", "F", "a", "b", "c", "e", "d", "f"}

alphaNumeric == alpha \cup digits

period == {"."}

hyphen == {"-"}

underscore == {"_"}

colon == {":"}

semicolon == {";"}

equal == {"="}

plus == {"+"}

at == {"@"}

pound == {"#"}

forwardSlash == {"/"}

backSlash == {"\\"}

dollarSign == {"$"}

whitespace == {" ", "\t", "x85", "xA0"}

\* "\n\v\f\r"; the vertical tab is written "x0B"
newline == {"\n", "x0B", "\f", "\r"}

comma == {","}

\* ----------------------------------------------------------------- tokens

\* The token types are the strings of their Go names.  TypeOrder is the
\* order of the const block: a Type is an int and EOF is iota 0.
TypeOrder == <<"EOF", "ILLEGAL">>

EOF == TypeOrder[1]

ILLEGAL == TypeOrder[2]

\* a zero Token in a type order that begins with ILLEGAL
ZeroTokenIllegal == [Type |-> TypeOrder[2], Literal |-> <<>>, Line |-> 0]

\* the zero value of token.Token, what a receive on a closed and drained
\* channel yields
ZeroToken == [Type |-> TypeOrder[1], Literal |-> <<>>, Line |-> 0]

objectStrings ==
     "CLASS_AS_SET" :> <<"a", "s", "-", "s", "e", "t">> @@
     "CLASS_AUT_NUM" :> <<"a", "u", "t", "-", "n", "u", "m">> @@
     "CLASS_DICTIONARY" :> <<"d", "i", "c", "t", "i", "o", "n", "a", "r", "y">> @@
     "CLASS_FILTER_SET" :> <<"f", "i", "l", "t", "e", "r", "-", "s", "e", "t">> @@
     "CLASS_MAINTAINER" :> <<"m", "n", "t", "n", "e", "r">> @@
     "CLASS_PEERING_SET" :> <<"p", "e", "e", "r", "i", "n", "g", "-", "s", "e", "t">> @@
     "CLASS_PERSON" :> <<"p", "e", "r", "s", "o", "n">> @@
     "CLASS_ROLE" :> <<"r", "o", "l", "e">> @@
     "CLASS_ROUTE6" :> <<"r", "o", "u", "t", "e", "6">> @@
     "CLASS_ROUTE" :> <<"r", "o", "u", "t", "e">> @@
     "CLASS_ROUTER" :> <<"i", "n", "e", "t", "-", "r", "t", "r">> @@
     "CLASS_ROUTER_SET" :> <<"r", "t", "r", "-", "s", "e", "t">> @@
     "CLASS_ROUTE_SET" :> <<"r", "o", "u", "t", "e", "-", "s", "e", "t">> @@
     "ATTR_ADDRESS" :> <<"a", "d", "d", "r", "e", "s", "s">> @@
     "ATTR_ADMIN_CONTACT" :> <<"a", "d", "m", "i", "n", "-", "c">> @@
     "ATTR_AS_NAME" :> <<"a", "s", "-", "n", "a", "m", "e">> @@
     "ATTR_AUTHENTICATION" :> <<"a", "u", "t", "h">> @@
     "ATTR_CHANGED_AT_AND_BY" :> <<"c", "h", "a", "n", "g", "e", "d">> @@
     "ATTR_CONTINUATION" :> <<"+">> @@
     "ATTR_DESCRIPTION" :> <<"d", "e", "s", "c", "r">> @@
     "ATTR_EMAIL" :> <<"e", "-", "m", "a", "i", "l">> @@
     "ATTR_EXPORT" :> <<"e", "x", "p", "o", "r", "t">> @@
     "ATTR_FAX_NUMBER" :> <<"f", "a", "x", "-", "n", "o">> @@
     "ATTR_IMPORT" :> <<"i", "m", "p", "o", "r", "t">> @@
     "ATTR_MAINTAINED_BY" :> <<"m", "n", "t", "-", "b", "y">> @@
     "ATTR_MAINTAINER_NOTIFY_EMAIL" :> <<"m", "n", "t", "-", "n", "f", "y">> @@
     "ATTR_NIC_HANDLE" :> <<"n", "i", "c", "-", "h", "d", "l">> @@
     "ATTR_NOTIFY_EMAIL" :> <<"n", "o", "t", "i", "f", "y">> @@
     "ATTR_PHONE_NUMBER" :> <<"p", "h", "o", "n", "e">> @@
     "ATTR_REGISTRY_SOURCE" :> <<"s", "o", "u", "r", "c", "e">> @@
     "ATTR_REMARKS" :> <<"r", "e", "m", "a", "r", "k", "s">> @@
     "ATTR_TECHNICAL_CONTACT" :> <<"t", "e", "c", "h", "-", "c">> @@
     "ATTR_UPDATED_TO_EMAIL" :> <<"u", "p", "d", "-", "t", "o">> @@
     "DATA_CRYPT_PASS" :> <<"C", "R", "Y", "P", "T", "-", "P", "W">> @@
     "DATA_MAIL_FROM_PASS" :> <<"M", "A", "I", "L", "-", "F", "R", "O", "M">> @@
     "DATA_MD5_PASS" :> <<"M", "D", "5", "-", "p", "w">> @@
     "DATA_NO_AUTH" :> <<"N", "O", "N", "E">> @@
     "DATA_PGP_KEY" :> <<"P", "G", "P", "K", "e", "y", "-">>

\* The keywords of the two multi-protocol attributes.  lexer.go uses
\* token.ATTR_MULTI_PROTO_EXPORT_POLICY and ..._IMPORT_POLICY, which the
\* token package at hand does not declare; their keywords are the ones the
\* specification names.
multiProtoStrings ==
     "ATTR_MULTI_PROTO_EXPORT_POLICY" :> <<"m", "p", "-", "e", "x", "p", "o", "r", "t">> @@
     "ATTR_MULTI_PROTO_IMPORT_POLICY" :> <<"m", "p", "-", "i", "m", "p", "o", "r", "t">>

\* the result of a Name() that finds no entry: the call panics, and no text
\* has this keyword as a prefix
panic == <<"panic">>

\* Name() over the table of the token package alone
NameOfObjectStrings(t) ==
    IF t \in DOMAIN objectStrings
    THEN [i \in 1..Len(objectStrings[t]) |-> ToLowerRune(objectStrings[t][i])]
    ELSE panic

\* Type.Name(): strings.ToLower of the entry, a panic without one
Name(t) ==
    LET tok == IF t \in DOMAIN objectStrings THEN objectStrings[t]
               ELSE multiProtoStrings[t]
    IN IF t \in DOMAIN objectStrings \cup DOMAIN multiProtoStrings
       THEN [i \in 1..Len(tok) |-> ToLowerRune(tok[i])]
       ELSE panic

\* newToken
\* newToken without the reset of the line of an EOF token
newTokenKeepLine(tType, literal, line) ==
    [Type |-> tType, Literal |-> literal, Line |-> line]

newToken(tType, literal, line) ==
    [Type |-> tType, Literal |-> literal,
     Line |-> IF tType = EOF THEN 0 ELSE line]


\* ----------------------------------------------------------------- cursor

\* x := v followed by the statements F(x): v is computed once and named by
\* the parameter of F
Bind(v, F(_)) == F(v)

\* the Lexer struct after Lex, with the bookkeeping of a call
NewLexer(inputText) ==
    [input |-> inputText, start |-> 0, pos |-> 0, lastRune |-> NulRune,
     lastRuneWidth |-> 0, lineNum |-> 1, continuationPath |-> "nil",
     r |-> NulRune, ok |-> FALSE, out |-> <<>>, hung |-> FALSE,
     next |-> "nil"]

\* the fields of the Lexer struct that move during a scan
Cursor(l) ==
    [start |-> l.start, pos |-> l.pos, lastRune |-> l.lastRune,
     lastRuneWidth |-> l.lastRuneWidth, lineNum |-> l.lineNum,
     continuationPath |-> l.continuationPath]

\* a call that has entered an endless loop executes nothing after it
readRune(l) ==
    IF l.hung THEN l
    ELSE IF l.pos >= Len(l.input)
    THEN [l EXCEPT !.lastRuneWidth = 0, !.r = eof]
    ELSE Bind(DecodeRuneInString(l.input, l.pos), LAMBDA d :
             [l EXCEPT !.lastRune = d.rune, !.lastRuneWidth = d.width,
                       !.pos = l.pos + d.width,
                       !.lineNum = IF d.rune = "\n" THEN l.lineNum + 1 ELSE l.lineNum,
                       !.r = d.rune])

\* backup that moves pos back and leaves lineNum as it is
backupKeepLine(l) ==
    IF l.hung THEN l ELSE [l EXCEPT !.pos = l.pos - l.lastRuneWidth]

backup(l) ==
    IF l.hung THEN l
    ELSE LET p == l.pos - l.lastRuneWidth IN
         [l EXCEPT !.pos = p,
                   !.lineNum = IF l.lastRuneWidth = 1 /\ l.input[p + 1] = "\n"
                               THEN l.lineNum - 1 ELSE l.lineNum]

peek(l) ==
    IF l.pos >= Len(l.input) THEN eof
    ELSE DecodeRuneInString(l.input, l.pos).rune

\* an emit that leaves start where it is
emitKeepStart(l, t) ==
    IF l.hung THEN l
    ELSE [l EXCEPT !.out = Append(l.out,
                       [tok |-> newToken(t, SubSeq(l.input, l.start + 1, l.pos), l.lineNum),
                        at |-> Cursor(l)])]

\* an emit that moves start one byte past pos
emitPastPos(l, t) ==
    IF l.hung THEN l
    ELSE [l EXCEPT !.out = Append(l.out,
                       [tok |-> newToken(t, SubSeq(l.input, l.start + 1, l.pos), l.lineNum),
                        at |-> Cursor(l)]),
                   !.start = l.pos + 1]

\* emit: the token is built from input[start:pos] and lineNum and handed to
\* the channel (the send itself is the action Send), then start = pos.
\* The entry of out keeps the cursor of the moment the send begins.
emit(l, t) ==
    IF l.hung THEN l
    ELSE [l EXCEPT !.out = Append(l.out,
                       [tok |-> newToken(t, SubSeq(l.input, l.start + 1, l.pos), l.lineNum),
                        at |-> Cursor(l)]),
                   !.start = l.pos]

ignore(l) == IF l.hung THEN l ELSE [l EXCEPT !.start = l.pos]

accept(l, valid) ==
    IF l.hung THEN [l EXCEPT !.ok = FALSE]
    ELSE Bind(readRune(l), LAMBDA l1 :
             IF IndexRune(Fold(valid), l1.r) THEN [l1 EXCEPT !.ok = TRUE]
             ELSE [backup(l1) EXCEPT !.ok = FALSE])

acceptExcept(l, invalid) ==
    IF l.hung THEN [l EXCEPT !.ok = FALSE]
    ELSE Bind(readRune(l), LAMBDA l1 :
             IF ~IndexRune(Fold(invalid), l1.r) THEN [l1 EXCEPT !.ok = TRUE]
             ELSE [backup(l1) EXCEPT !.ok = FALSE])

\* ok is the value of accepted when the loop ends
RECURSIVE acceptRunFrom(_, _, _)
acceptRunFrom(l, valid, accepted) ==
    Bind(accept(l, valid), LAMBDA l1 :
        IF l1.ok THEN acceptRunFrom(l1, valid, TRUE)
        ELSE [l1 EXCEPT !.ok = accepted])

acceptRun(l, valid) == acceptRunFrom(l, valid, FALSE)

\* An iteration that accepts and leaves the lexer as it found it is
\* repeated for ever: the loop never ends (hung).
RECURSIVE acceptExceptRunFrom(_, _, _)
acceptExceptRunFrom(l, invalid, accepted) ==
    Bind(acceptExcept(l, invalid), LAMBDA l1 :
        IF l1.ok
        THEN IF Cursor(l1) = Cursor(l) THEN [l1 EXCEPT !.hung = TRUE]
             ELSE acceptExceptRunFrom(l1, invalid, TRUE)
        ELSE [l1 EXCEPT !.ok = accepted])

acceptExceptRun(l, invalid) == acceptExceptRunFrom(l, invalid, FALSE)

\* l.pos += n
posAdd(l, n) == IF l.hung THEN l ELSE [l EXCEPT !.pos = l.pos + n]

\* strings.HasPrefix(l.input[l.pos:], prefix)
HasPrefix(l, prefix) ==
    /\ l.pos + Len(prefix) <= Len(l.input)
    /\ \A i \in 1..Len(prefix) : l.input[l.pos + i] = prefix[i]

\* strings.HasPrefix(strings.ToLower(l.input[l.pos:]), prefix)
HasPrefixLower(l, prefix) ==
    LET t == ToLowerFrom(l.input, l.pos, Len(prefix)) IN
    /\ Len(t) >= Len(prefix)
    /\ SubSeq(t, 1, Len(prefix)) = prefix

\* strings.HasPrefix(strings.ToUpper(l.input[l.pos:]), prefix)
HasPrefixUpper(l, prefix) ==
    /\ l.pos + Len(prefix) <= Len(l.input)
    /\ \A i \in 1..Len(prefix) : ToUpperByte(l.input[l.pos + i]) = prefix[i]

\* for i := 0; i < n; i++ { if !l.accept(valid) { ... return } }:
\* ok is FALSE at the first accept that fails
RECURSIVE acceptTimes(_, _, _)
acceptTimes(l, valid, n) ==
    IF n = 0 THEN [l EXCEPT !.ok = TRUE]
    ELSE Bind(accept(l, valid), LAMBDA l1 :
             IF l1.ok THEN acceptTimes(l1, valid, n - 1) ELSE l1)

\* for _, t := range word { if !l.accept(string(t)) { return false } }
RECURSIVE acceptWord(_, _)
acceptWord(l, word) ==
    IF word = <<>> THEN [l EXCEPT !.ok = TRUE]
    ELSE Bind(accept(l, {Head(word)}), LAMBDA l1 :
             IF l1.ok THEN acceptWord(l1, Tail(word)) ELSE l1)

\* return st
Return(l, st) == [l EXCEPT !.next = st]

\* l.emit(token.ILLEGAL); return nil
Illegal(l) == Return(emit(l, ILLEGAL), "nil")

\* an emit without the test of pos against start
emitAlways(l, t) == emit(l, t)

\* if l.pos > l.start { l.emit(t) }
emitIfAny(l, t) == IF l.pos > l.start THEN emit(l, t) ELSE l

\* if l.pos > l.start { l.emit(t) }; return nextStateFn
EmitValue(l, t, nextStateFn) == Return(emitIfAny(l, t), nextStateFn)

\* if !ok { l.emit(token.ILLEGAL); return nil } followed by the statements
\* F, where l is the lexer after the call that gave ok
OrIllegal(l, F(_)) == IF ~l.ok THEN Illegal(l) ELSE F(l)

\* if !ok { return false } followed by the statements F
OrFalse(l, F(_)) == IF ~l.ok THEN l ELSE F(l)


\* ----------------------------------------------------------- value lexers

\* the end of an entry of the handle list: the emit of the handle, the
\* whitespace after it, and foundNextHandle in ok
\* the end of an entry that looks for the comma directly behind the handle
lexNICHandleEndTight(l) ==
    accept(emitIfAny(acceptRun(l, alphaNumeric \cup hyphen \cup underscore),
                     "DATA_NIC_HANDLE"), comma)

lexNICHandleEnd(l) ==
    accept(ignore(acceptRun(
               emitIfAny(acceptRun(l, alphaNumeric \cup hyphen \cup underscore),
                         "DATA_NIC_HANDLE"),
               whitespace)), comma)

RECURSIVE lexNICHandleList(_, _)
\* the loop over the further handles of the list; l.ok is foundNextHandle
lexNICHandleList(l, nextStateFn) ==
    IF ~l.ok THEN Return(l, nextStateFn)
    ELSE OrIllegal(accept(ignore(acceptRun(l, whitespace)), alpha), LAMBDA a :
             lexNICHandleList(lexNICHandleEnd(a), nextStateFn))

lexNICHandleAttrValue(l, nextStateFn) ==
    OrIllegal(accept(l, alpha), LAMBDA a :
        lexNICHandleList(lexNICHandleEnd(a), nextStateFn))

lexEmailAttrValue(l, nextStateFn) ==
    OrIllegal(acceptExceptRun(l, whitespace \cup newline \cup at), LAMBDA a :
    OrIllegal(accept(a, at), LAMBDA b :
    OrIllegal(acceptRun(b, alphaNumeric \cup period \cup hyphen
                           \cup underscore \cup colon), LAMBDA c :
    EmitValue(c, "DATA_EMAIL", nextStateFn))))

\* an email and date lexer that takes any run of digits as the date
lexEmailAndDigits(l, nextStateFn) ==
    EmitValue(acceptRun(ignore(acceptRun(lexEmailAttrValue(l, "nil"), whitespace)),
                        digits), "DATA_DATE", nextStateFn)

\* the state function lexEmailAttrValue returns is dropped: the date is
\* lexed whatever the email lexer did
lexEmailAndDateAttrValue(l, nextStateFn) ==
    OrIllegal(acceptTimes(ignore(acceptRun(lexEmailAttrValue(l, "nil"), whitespace)),
                          digits, 8), LAMBDA d :
        EmitValue(d, "DATA_DATE", nextStateFn))

\* lexFreeformAttrValue with a run that no character ends
lexFreeformToEnd(l, nextStateFn) ==
    EmitValue(acceptExceptRun(l, {}), "DATA_STRING", nextStateFn)

lexFreeformAttrValue(l, nextStateFn) ==
    EmitValue(acceptExceptRun(l, newline), "DATA_STRING", nextStateFn)

lexRegistrySourceAttrValue(l, nextStateFn) ==
    EmitValue(acceptExceptRun(l, newline), "DATA_REGISTRY_NAME", nextStateFn)

lexPGPKeyAuthAttrValue(l, nextStateFn) ==
    OrIllegal(acceptTimes(l, hexDigits, 8), LAMBDA a :
        EmitValue(a, "DATA_PGP_KEY", nextStateFn))

lexCryptPassAuthAttrValue(l, nextStateFn) ==
    OrIllegal(acceptTimes(l, alphaNumeric \cup forwardSlash \cup backSlash, 13), LAMBDA a :
        EmitValue(a, "DATA_CRYPT_PASS", nextStateFn))

lexMD5PassAuthAttrValue(l, nextStateFn) ==
    OrIllegal(accept(l, dollarSign), LAMBDA a :
    OrIllegal(accept(a, {"1"}), LAMBDA b :
    OrIllegal(accept(b, dollarSign), LAMBDA c :
    OrIllegal(acceptTimes(c, alphaNumeric \cup period \cup forwardSlash, 8), LAMBDA d :
    OrIllegal(accept(d, dollarSign), LAMBDA e :
    OrIllegal(acceptRun(e, alphaNumeric \cup period \cup forwardSlash), LAMBDA f :
    EmitValue(f, "DATA_MD5_PASS", nextStateFn)))))))

lexMailFromPassAuthAttrValue(l, nextStateFn) ==
    OrIllegal(acceptExceptRun(l, whitespace \cup newline \cup at), LAMBDA a :
    OrIllegal(accept(a, at), LAMBDA b :
    OrIllegal(acceptRun(b, alphaNumeric \cup period \cup hyphen
                           \cup underscore \cup colon), LAMBDA c :
    EmitValue(c, "DATA_MAIL_FROM_PASS", nextStateFn))))

lexNoAuthAttrValue(l, nextStateFn) ==
    EmitValue(posAdd(l, Len(Name("DATA_NO_AUTH"))), "DATA_NO_AUTH", nextStateFn)

\* the dispatch with the crypt case handed to the MD5 lexer
lexAuthenticationCryptAsMD5(l, returnToStateFn) ==
    IF HasPrefixLower(l, Name("DATA_PGP_KEY"))
    THEN lexPGPKeyAuthAttrValue(
             ignore(posAdd(l, Len(Name("DATA_PGP_KEY")))), returnToStateFn)
    ELSE IF HasPrefixLower(l, Name("DATA_CRYPT_PASS"))
    THEN lexMD5PassAuthAttrValue(
             ignore(acceptRun(posAdd(l, Len(Name("DATA_CRYPT_PASS"))), whitespace)),
             returnToStateFn)
    ELSE IF HasPrefixLower(l, Name("DATA_MD5_PASS"))
    THEN lexMD5PassAuthAttrValue(
             ignore(acceptRun(posAdd(l, Len(Name("DATA_MD5_PASS"))), whitespace)),
             returnToStateFn)
    ELSE IF HasPrefixLower(l, Name("DATA_MAIL_FROM_PASS"))
    THEN lexMailFromPassAuthAttrValue(
             ignore(acceptRun(posAdd(l, Len(Name("DATA_MAIL_FROM_PASS"))), whitespace)),
             returnToStateFn)
    ELSE IF HasPrefixLower(l, Name("DATA_NO_AUTH"))
    THEN lexNoAuthAttrValue(l, returnToStateFn)
    ELSE Illegal(l)

lexAuthenticationAttrValue(l, returnToStateFn) ==
    IF HasPrefixLower(l, Name("DATA_PGP_KEY"))
    THEN lexPGPKeyAuthAttrValue(
             ignore(posAdd(l, Len(Name("DATA_PGP_KEY")))), returnToStateFn)
    ELSE IF HasPrefixLower(l, Name("DATA_CRYPT_PASS"))
    THEN lexCryptPassAuthAttrValue(
             ignore(acceptRun(posAdd(l, Len(Name("DATA_CRYPT_PASS"))), whitespace)),
             returnToStateFn)
    ELSE IF HasPrefixLower(l, Name("DATA_MD5_PASS"))
    THEN lexMD5PassAuthAttrValue(
             ignore(acceptRun(posAdd(l, Len(Name("DATA_MD5_PASS"))), whitespace)),
             returnToStateFn)
    ELSE IF HasPrefixLower(l, Name("DATA_MAIL_FROM_PASS"))
    THEN lexMailFromPassAuthAttrValue(
             ignore(acceptRun(posAdd(l, Len(Name("DATA_MAIL_FROM_PASS"))), whitespace)),
             returnToStateFn)
    ELSE IF HasPrefixLower(l, Name("DATA_NO_AUTH"))
    THEN lexNoAuthAttrValue(l, returnToStateFn)
    ELSE Illegal(l)

\* if !ok { l.emit(token.ILLEGAL) }: no return follows the emit
orEmitIllegal(l) == IF ~l.ok THEN emit(l, ILLEGAL) ELSE l

\* for _, x := range ext { if !l.accept(x) { l.emit(token.ILLEGAL) } }:
\* the loop goes on after an emit
RECURSIVE lexPhoneExt(_, _)
lexPhoneExt(l, ext) ==
    IF ext = <<>> THEN l
    ELSE lexPhoneExt(orEmitIllegal(accept(l, {Head(ext)})), Tail(ext))

\* l.acceptRun(digits); l.acceptRun(whitespace)
lexPhonePart(l) == acceptRun(acceptRun(l, digits), whitespace)

\* if l.accept("e") { ...; l.acceptRun(digits) }
lexPhoneExtension(l) ==
    IF l.ok THEN acceptRun(lexPhoneExt(l, <<"x", "t", ".">>), digits) ELSE l

\* neither emit of ILLEGAL is followed by a return: country code, area
\* code, city and subscriber are read after the first, the extension after
\* the second
lexPhoneOrFaxAttrValue(l, nextStateFn) ==
    EmitValue(
        lexPhoneExtension(
            accept(lexPhonePart(lexPhonePart(lexPhonePart(lexPhonePart(
                       orEmitIllegal(accept(l, plus)))))), {"e"})),
        "DATA_TELEPHONE_OR_FAX_NUMBER", nextStateFn)

lexAutNumAttrValue(l, nextStateFn) ==
    OrIllegal(acceptWord(l, <<"A", "S">>), LAMBDA a :
        EmitValue(acceptRun(a, digits), "DATA_ASN", nextStateFn))

\* ---------------------------------------------------------- policy clauses

\* the result of a partialLex function is the field ok
Result(l, b) == [l EXCEPT !.ok = b]

\* l.acceptRun(whitespace); return true
SkipAndTrue(l) == Result(acceptRun(l, whitespace), TRUE)

\* the optional clause "<word> <name>" of partialLexProtocol
lexProtocolName(l, word) ==
    IF HasPrefixLower(l, word)
    THEN OrFalse(acceptWord(l, word), LAMBDA w :
             Result(acceptRun(acceptRun(acceptRun(w, whitespace),
                                        alphaNumeric \cup hyphen), whitespace), TRUE))
    ELSE Result(l, TRUE)

partialLexProtocol(l) ==
    OrFalse(lexProtocolName(l, <<"p", "r", "o", "t", "o", "c", "o", "l">>), LAMBDA a :
    OrFalse(lexProtocolName(a, <<"i", "n", "t", "o">>), LAMBDA b :
    SkipAndTrue(b)))

\* the address families in the order the switch tests them
afiTypes ==
    << <<"i", "p", "v", "4", ".", "u", "n", "i", "c", "a", "s", "t">>,
       <<"i", "p", "v", "4", ".", "m", "u", "l", "t", "i", "c", "a", "s", "t">>,
       <<"i", "p", "v", "4">>,
       <<"i", "p", "v", "6", ".", "u", "n", "i", "c", "a", "s", "t">>,
       <<"i", "p", "v", "6", ".", "m", "u", "l", "t", "i", "c", "a", "s", "t">>,
       <<"i", "p", "v", "6">> >>

\* the index of the first entry of an ordered keyword list that is a prefix
\* of the lowered input at pos, 0 when there is none
FirstMatch(l, keywords) ==
    LET hits == {i \in 1..Len(keywords) : HasPrefixLower(l, keywords[i])} IN
    IF hits = {} THEN 0 ELSE CHOOSE i \in hits : \A j \in hits : i <= j

RECURSIVE lexAFIList(_)
lexAFIList(l) ==
    LET k == FirstMatch(l, afiTypes) IN
    IF k = 0 THEN Result(l, FALSE)
    ELSE OrFalse(acceptWord(l, afiTypes[k]), LAMBDA w :
             Bind(accept(acceptRun(w, whitespace), comma), LAMBDA c :
                 IF c.ok THEN lexAFIList(c) ELSE Result(c, TRUE)))

partialLexAddressFamilyIdentifier(l) ==
    IF HasPrefixLower(l, <<"a", "f", "i">>)
    THEN OrFalse(acceptWord(l, <<"a", "f", "i">>), LAMBDA w :
         OrFalse(lexAFIList(acceptRun(w, whitespace)), LAMBDA a :
         SkipAndTrue(a)))
    ELSE SkipAndTrue(l)

partialLexToPeer(l) ==
    OrFalse(acceptWord(l, <<"t", "o">>), LAMBDA a :
    OrFalse(acceptWord(acceptRun(a, whitespace), <<"A", "S">>), LAMBDA b :
    Result(acceptRun(acceptRun(b, digits), whitespace), TRUE)))

\* if l.accept(hyphen) { l.acceptRun(nameChars) } else { l.acceptRun(digits) }
lexASName(l, nameChars) ==
    IF l.ok THEN acceptRun(l, nameChars) ELSE acceptRun(l, digits)

partialLexFromPeer(l) ==
    OrFalse(acceptWord(l, <<"f", "r", "o", "m">>), LAMBDA a :
    OrFalse(acceptWord(acceptRun(a, whitespace), <<"A", "S">>), LAMBDA b :
    OrFalse(lexASName(accept(b, hyphen), alphaNumeric), LAMBDA n :
    SkipAndTrue(n))))

\* the end of an iteration of a loop over a list: the next iteration when
\* again holds, else the loop is left with true
AgainOrTrue(l, again, F(_)) == IF again THEN F(l) ELSE Result(l, TRUE)

RECURSIVE lexActionList(_, _)
lexActionList(l, nextClause) ==
    OrFalse(acceptRun(l, alphaNumeric \cup hyphen \cup period), LAMBDA n :
    OrFalse(accept(acceptRun(n, whitespace), equal), LAMBDA q :
    OrFalse(acceptRun(acceptRun(q, whitespace),
                      alphaNumeric \cup hyphen \cup period), LAMBDA v :
    OrFalse(accept(v, semicolon), LAMBDA s :
    Bind(acceptRun(s, whitespace), LAMBDA w :
        AgainOrTrue(w, ~HasPrefixLower(w, nextClause),
                    LAMBDA x : lexActionList(x, nextClause)))))))

partialLexAction(l, nextClause) ==
    IF HasPrefixLower(l, <<"a", "c", "t", "i", "o", "n">>)
    THEN OrFalse(acceptWord(l, <<"a", "c", "t", "i", "o", "n">>), LAMBDA w :
         OrFalse(lexActionList(w, nextClause), LAMBDA a :
         SkipAndTrue(a)))
    ELSE SkipAndTrue(l)

\* the loop over the AS numbers and set names of an announce or accept
\* clause; nameChars are the characters of a set name after "AS-"
RECURSIVE lexASList(_, _)
lexASList(l, nameChars) ==
    OrFalse(acceptWord(l, <<"A", "S">>), LAMBDA a :
    Bind(acceptRun(lexASName(accept(a, hyphen), nameChars), whitespace), LAMBDA w :
        AgainOrTrue(w, HasPrefixUpper(w, <<"A", "S">>),
                    LAMBDA x : lexASList(x, nameChars))))

partialLexAnnouncement(l) ==
    OrFalse(acceptWord(l, <<"a", "n", "n", "o", "u", "n", "c", "e">>), LAMBDA a :
    OrFalse(lexASList(acceptRun(a, whitespace), alphaNumeric \cup underscore), LAMBDA b :
    SkipAndTrue(b)))

\* if strings.HasPrefix(..., "any") { ... "ANY" } else { the loop }
lexAnyOrASList(l) ==
    IF HasPrefixLower(l, <<"a", "n", "y">>)
    THEN acceptWord(l, <<"A", "N", "Y">>)
    ELSE lexASList(l, alphaNumeric \cup underscore \cup hyphen)

partialLexAcceptAS(l) ==
    OrFalse(acceptWord(l, <<"a", "c", "c", "e", "p", "t">>), LAMBDA a :
    OrFalse(lexAnyOrASList(acceptRun(a, whitespace)), LAMBDA b :
    SkipAndTrue(b)))

\* a clause of a policy value by its name
partialLex(c, l) ==
    CASE c = "protocol" -> partialLexProtocol(l)
      [] c = "afi"      -> partialLexAddressFamilyIdentifier(l)
      [] c = "to"       -> partialLexToPeer(l)
      [] c = "from"     -> partialLexFromPeer(l)
      [] c = "action announce" ->
             partialLexAction(l, <<"a", "n", "n", "o", "u", "n", "c", "e">>)
      [] c = "action accept" ->
             partialLexAction(l, <<"a", "c", "c", "e", "p", "t">>)
      [] c = "announce" -> partialLexAnnouncement(l)
      [] c = "accept"   -> partialLexAcceptAS(l)

\* a policy value: the clauses in order, ILLEGAL at the first that fails
RECURSIVE lexClauses(_, _, _, _)
lexClauses(l, clauses, t, nextStateFn) ==
    IF clauses = <<>> THEN EmitValue(l, t, nextStateFn)
    ELSE OrIllegal(partialLex(Head(clauses), l), LAMBDA a :
             lexClauses(a, Tail(clauses), t, nextStateFn))

lexExportAttrValue(l, nextStateFn) ==
    lexClauses(l, <<"protocol", "to", "action announce", "announce">>,
               "DATA_EXPORT_POLICY", nextStateFn)

lexImportAttrValue(l, nextStateFn) ==
    lexClauses(l, <<"protocol", "from", "action accept", "accept">>,
               "DATA_IMPORT_POLICY", nextStateFn)

lexMultiProtoExportAttrValue(l, nextStateFn) ==
    lexClauses(l, <<"protocol", "afi", "to", "action announce", "announce">>,
               "DATA_MULTI_PROTO_EXPORT_POLICY", nextStateFn)

lexMultiProtoImportAttrValue(l, nextStateFn) ==
    lexClauses(l, <<"protocol", "afi", "from", "action accept", "accept">>,
               "DATA_MULTI_PROTO_IMPORT_POLICY", nextStateFn)


\* -------------------------------------------------------- state functions

\* a call of a value lexer (a stagedStateFn) by its name; calling the nil
\* continuationPath panics
CallValue(valueStateFn, l, nextStateFn) ==
    CASE valueStateFn = "lexNICHandleAttrValue" -> lexNICHandleAttrValue(l, nextStateFn)
      [] valueStateFn = "lexFreeformAttrValue" -> lexFreeformAttrValue(l, nextStateFn)
      [] valueStateFn = "lexAutNumAttrValue" -> lexAutNumAttrValue(l, nextStateFn)
      [] valueStateFn = "lexAuthenticationAttrValue" -> lexAuthenticationAttrValue(l, nextStateFn)
      [] valueStateFn = "lexEmailAttrValue" -> lexEmailAttrValue(l, nextStateFn)
      [] valueStateFn = "lexEmailAndDateAttrValue" -> lexEmailAndDateAttrValue(l, nextStateFn)
      [] valueStateFn = "lexRegistrySourceAttrValue" -> lexRegistrySourceAttrValue(l, nextStateFn)
      [] valueStateFn = "lexPhoneOrFaxAttrValue" -> lexPhoneOrFaxAttrValue(l, nextStateFn)
      [] valueStateFn = "lexExportAttrValue" -> lexExportAttrValue(l, nextStateFn)
      [] valueStateFn = "lexImportAttrValue" -> lexImportAttrValue(l, nextStateFn)
      [] valueStateFn = "lexMultiProtoExportAttrValue" -> lexMultiProtoExportAttrValue(l, nextStateFn)
      [] valueStateFn = "lexMultiProtoImportAttrValue" -> lexMultiProtoImportAttrValue(l, nextStateFn)
      [] OTHER -> Return(l, "panic")

\* lexAttrName without the assignment of continuationPath
setContinuationPathNever(l, valueStateFn) == l

\* continuationPath assigned only while it is nil
setContinuationPathOnce(l, valueStateFn) ==
    IF l.hung \/ l.continuationPath /= "nil" THEN l
    ELSE [l EXCEPT !.continuationPath = valueStateFn]

\* l.continuationPath = valueStateFn
setContinuationPath(l, valueStateFn) ==
    IF l.hung THEN l ELSE [l EXCEPT !.continuationPath = valueStateFn]

lexAttrName(l, tokenType, valueStateFn, returnToStateFn) ==
    OrIllegal(accept(emit(posAdd(l, Len(Name(tokenType))), tokenType), {":"}), LAMBDA c :
        CallValue(valueStateFn,
                  setContinuationPath(ignore(acceptRun(c, whitespace)), valueStateFn),
                  returnToStateFn))

\* the classes lexObjectClass hands to lexAttrName, in the order of the
\* switch, each with its value lexer
objectClasses ==
    << <<"CLASS_MAINTAINER", "lexNICHandleAttrValue">>,
       <<"CLASS_PERSON", "lexFreeformAttrValue">>,
       <<"CLASS_ROLE", "lexFreeformAttrValue">>,
       <<"CLASS_AUT_NUM", "lexAutNumAttrValue">> >>

\* the cases after them fall through to default
todoClasses ==
    <<"CLASS_AS_SET", "CLASS_ROUTE", "CLASS_ROUTE6", "CLASS_ROUTE_SET",
      "CLASS_FILTER_SET", "CLASS_ROUTER", "CLASS_ROUTER_SET",
      "CLASS_PEERING_SET", "CLASS_DICTIONARY">>

\* the keywords of a list of token types, by Name()
Names(types) == [i \in 1..Len(types) |-> Name(types[i][1])]

\* the switch of lexObjectClass on the index k of the first class keyword
\* that matches, 0 for none: a case of lexAttrName, or a TODO case or the
\* default, which emit EOF and return nil
lexObjectClassCase(l, k) ==
    IF k /= 0
    THEN lexAttrName(l, objectClasses[k][1], objectClasses[k][2], "lexClassAttributes")
    ELSE Return(emit(l, EOF), "nil")

\* lexObjectClass whose default case returns nil without the emit of EOF
lexObjectClassNoSentinel(l) ==
    IF FirstMatch(l, Names(objectClasses)) /= 0
    THEN lexObjectClassCase(l, FirstMatch(l, Names(objectClasses)))
    ELSE Return(l, "nil")

lexObjectClass(l) == lexObjectClassCase(l, FirstMatch(l, Names(objectClasses)))

\* the attributes of lexClassAttributes in the order of the switch, each
\* with its value lexer
classAttributes ==
    << <<"ATTR_AS_NAME", "lexNICHandleAttrValue">>,
       <<"ATTR_DESCRIPTION", "lexFreeformAttrValue">>,
       <<"ATTR_AUTHENTICATION", "lexAuthenticationAttrValue">>,
       <<"ATTR_UPDATED_TO_EMAIL", "lexEmailAttrValue">>,
       <<"ATTR_MAINTAINER_NOTIFY_EMAIL", "lexEmailAttrValue">>,
       <<"ATTR_TECHNICAL_CONTACT", "lexNICHandleAttrValue">>,
       <<"ATTR_ADMIN_CONTACT", "lexNICHandleAttrValue">>,
       <<"ATTR_REMARKS", "lexFreeformAttrValue">>,
       <<"ATTR_NOTIFY_EMAIL", "lexEmailAttrValue">>,
       <<"ATTR_MAINTAINED_BY", "lexNICHandleAttrValue">>,
       <<"ATTR_CHANGED_AT_AND_BY", "lexEmailAndDateAttrValue">>,
       <<"ATTR_REGISTRY_SOURCE", "lexRegistrySourceAttrValue">>,
       <<"ATTR_NIC_HANDLE", "lexNICHandleAttrValue">>,
       <<"ATTR_ADDRESS", "lexFreeformAttrValue">>,
       <<"ATTR_PHONE_NUMBER", "lexPhoneOrFaxAttrValue">>,
       <<"ATTR_FAX_NUMBER", "lexPhoneOrFaxAttrValue">>,
       <<"ATTR_EMAIL", "lexEmailAttrValue">>,
       <<"ATTR_EXPORT", "lexExportAttrValue">>,
       <<"ATTR_IMPORT", "lexImportAttrValue">>,
       <<"ATTR_MULTI_PROTO_EXPORT_POLICY", "lexMultiProtoExportAttrValue">>,
       <<"ATTR_MULTI_PROTO_IMPORT_POLICY", "lexMultiProtoImportAttrValue">> >>

\* the valueStateFn that the switches of lexObjectClass and
\* lexClassAttributes hand to lexAttrName with the token type t
valueStateFnOf(t) ==
    LET cases == objectClasses \o classAttributes IN
    cases[CHOOSE n \in DOMAIN cases : cases[n][1] = t][2]

\* if l.accept(pound) { l.acceptExceptRun(newline); l.acceptRun(newline) }
lexComment(l) ==
    IF l.ok THEN acceptRun(acceptExceptRun(l, newline), newline) ELSE l

\* the continuation case: the "+", space or tab is emitted and the value
\* lexer of the last attribute name is called again
lexContinuation(l) ==
    Bind(ignore(acceptRun(emit(posAdd(l, Len(Name("ATTR_CONTINUATION"))),
                               "ATTR_CONTINUATION"), whitespace)), LAMBDA v :
        CallValue(v.continuationPath, v, "lexClassAttributes"))

\* the switch of lexClassAttributes on the index k of the first attribute
\* keyword that matches, 0 for none
lexClassAttributesCase(l, k) ==
    IF \/ HasPrefix(l, <<" ">>)
       \/ HasPrefix(l, <<"\t">>)
       \/ HasPrefix(l, Name("ATTR_CONTINUATION"))
    THEN lexContinuation(l)
    ELSE IF k /= 0
    THEN lexAttrName(l, classAttributes[k][1], classAttributes[k][2], "lexClassAttributes")
    ELSE lexObjectClass(l)

lexClassAttributes(l) ==
    Bind(ignore(accept(lexComment(accept(acceptRun(l, whitespace), pound)), newline)),
         LAMBDA n : lexClassAttributesCase(n, FirstMatch(n, Names(classAttributes))))

\* the Lexer struct with cursor cur over inputText, at the entry of a call
LexerAt(inputText, cur) ==
    [input |-> inputText, start |-> cur.start, pos |-> cur.pos,
     lastRune |-> cur.lastRune, lastRuneWidth |-> cur.lastRuneWidth,
     lineNum |-> cur.lineNum, continuationPath |-> cur.continuationPath,
     r |-> NulRune, ok |-> FALSE, out |-> <<>>, hung |-> FALSE,
     next |-> "nil"]

\* state(l) of the loop of run: one call of the state function named state
\* on the lexer with cursor cur, with the emits of the call in out
CallState(state, inputText, cur) ==
    IF state = "lexObjectClass" THEN lexObjectClass(LexerAt(inputText, cur))
    ELSE lexClassAttributes(LexerAt(inputText, cur))


\* ----------------------------------------------------------------- inputs

\* the number of lines an input text has after its first line
MaxAttrs == 1

\* how many times the consumer calls NextToken after the channel is closed
\* and drained
MaxExtra == 2

\* first lines that open an object
ClassLines ==
    { <<"m", "n", "t", "n", "e", "r", ":", " ", "A">>,
         \* mntner: A
      <<"a", "u", "t", "-", "n", "u", "m", ":", " ", "A", "S", "1">>,
         \* aut-num: AS1
      <<"p", "e", "r", "s", "o", "n", ":", " ", "J">> }
         \* person: J

\* texts whose scan ends in the first line
ClosedTexts ==
    { <<"m", "n", "t", "n", "e", "r", " ", "A">>,
         \* mntner A
      <<"r", "o", "u", "t", "e", ":", " ", "x">>,
         \* route: x
      <<>> }
         \* (an empty line)

\* the lines that may follow the first
AttrLines ==
    { <<"d", "e", "s", "c", "r", ":", " ", "d">>,
         \* descr: d
      <<"m", "n", "t", "-", "b", "y", ":", " ", "A", ",", "B">>,
         \* mnt-by: A,B
      <<"m", "n", "t", "-", "b", "y", ":", " ", "A", ",">>,
         \* mnt-by: A,
      <<"p", "h", "o", "n", "e", ":", " ", "+", "1", " ", "2", " ", "3", " ", "4">>,
         \* phone: +1 2 3 4
      <<"p", "h", "o", "n", "e", ":", " ", "1">>,
         \* phone: 1
      <<"f", "a", "x", "-", "n", "o", ":", " ", "+", "1", " ", "e", "x", "5">>,
         \* fax-no: +1 ex5
      <<"c", "h", "a", "n", "g", "e", "d", ":", " ", "a", "@", "b", " ", "2", "0", "1", "9", "0", "7", "0", "1">>,
         \* changed: a@b 20190701
      <<"c", "h", "a", "n", "g", "e", "d", ":", " ", "a", "b", " ", "2", "0", "1", "9", "0", "7", "0", "1">>,
         \* changed: ab 20190701
      <<"c", "h", "a", "n", "g", "e", "d", ":", " ", "a", "@", "b", " ", "2", "0", "1", "9">>,
         \* changed: a@b 2019
      <<"a", "u", "t", "h", ":", " ", "N", "O", "N", "E">>,
         \* auth: NONE
      <<"a", "u", "t", "h", ":", " ", "P", "G", "P", "K", "e", "y", "-", "8", "0", "F", "2", "3", "8", "C", "6">>,
         \* auth: PGPKey-80F238C6
      <<"a", "u", "t", "h", ":", " ", "X">>,
         \* auth: X
      <<"e", "x", "p", "o", "r", "t", ":", " ", "t", "o", " ", "A", "S", "1", " ", "a", "n", "n", "o", "u", "n", "c", "e", " ", "A", "S", "2">>,
         \* export: to AS1 announce AS2
      <<"m", "p", "-", "i", "m", "p", "o", "r", "t", ":", " ", "a", "f", "i", " ", "i", "p", "v", "6", " ", "f", "r", "o", "m", " ", "A", "S", "1", " ", "a", "c", "c", "e", "p", "t", " ", "A", "N", "Y">>,
         \* mp-import: afi ipv6 from AS1 accept ANY
      <<"+", " ", "e">>,
         \* + e
      <<"s", "o", "u", "r", "c", "e", ":", " ", "T", " ", "#", " ", "c">>,
         \* source: T # c
      <<"e", "-", "m", "a", "i", "l", ":", " ", "a", "@", "b">>,
         \* e-mail: a@b
      <<"r", "e", "m", "a", "r", "k", "s", ":", " ", "xC3", "xA9">>,
         \* remarks: é
      <<>>,
         \* (an empty line)
      <<"p", "e", "r", "s", "o", "n", ":", " ", "X">> }
         \* person: X

\* a first line and at most n further lines, without the last line feed
RECURSIVE Texts(_)
Texts(n) ==
    IF n = 0 THEN ClassLines
    ELSE Texts(n - 1) \cup
         {x \o <<"\n">> \o a : x \in Texts(n - 1), a \in AttrLines}

\* the input texts: each text with and without its last line feed
Inputs ==
    {x \o e : x \in Texts(MaxAttrs) \cup ClosedTexts, e \in {<<"\n">>, <<>>}}

\* the input texts of the two concurrent scans of PairSpec
PairInputs ==
    {x \o e : x \in Texts(1) \cup ClosedTexts, e \in {<<"\n">>}}

\* the input texts of ScanSpec: every text ends with a line feed
ScanInputs ==
      \* one text for each of the 13 object classes, the keyword followed by a colon
    { <<"m", "n", "t", "n", "e", "r", ":", " ", "x", "\n">>,
         \* mntner: x\n
      <<"p", "e", "r", "s", "o", "n", ":", " ", "x", "\n">>,
         \* person: x\n
      <<"r", "o", "l", "e", ":", " ", "x", "\n">>,
         \* role: x\n
      <<"a", "u", "t", "-", "n", "u", "m", ":", " ", "A", "S", "1", "\n">>,
         \* aut-num: AS1\n
      <<"a", "s", "-", "s", "e", "t", ":", " ", "x", "\n">>,
         \* as-set: x\n
      <<"r", "o", "u", "t", "e", ":", " ", "x", "\n">>,
         \* route: x\n
      <<"r", "o", "u", "t", "e", "6", ":", " ", "x", "\n">>,
         \* route6: x\n
      <<"r", "o", "u", "t", "e", "-", "s", "e", "t", ":", " ", "x", "\n">>,
         \* route-set: x\n
      <<"f", "i", "l", "t", "e", "r", "-", "s", "e", "t", ":", " ", "x", "\n">>,
         \* filter-set: x\n
      <<"i", "n", "e", "t", "-", "r", "t", "r", ":", " ", "x", "\n">>,
         \* inet-rtr: x\n
      <<"r", "t", "r", "-", "s", "e", "t", ":", " ", "x", "\n">>,
         \* rtr-set: x\n
      <<"p", "e", "e", "r", "i", "n", "g", "-", "s", "e", "t", ":", " ", "x", "\n">>,
         \* peering-set: x\n
      <<"d", "i", "c", "t", "i", "o", "n", "a", "r", "y", ":", " ", "x", "\n">>,
         \* dictionary: x\n
      <<"P", "e", "r", "s", "o", "n", ":", " ", "x", "\n">>,
         \* Person: x\n
      \* a first object followed by the class line of a second
      <<"m", "n", "t", "n", "e", "r", ":", " ", "A", "\n", "d", "e", "s", "c", "r", ":", " ", "d", "\n", "p", "e", "r", "s", "o", "n", ":", " ", "J", "\n">>,
         \* mntner: A\ndescr: d\nperson: J\n
      <<"p", "e", "r", "s", "o", "n", ":", " ", "J", "\n", "r", "o", "l", "e", ":", " ", "R", "\n", "a", "d", "d", "r", "e", "s", "s", ":", " ", "xC3", "xA9", "\n">>,
         \* person: J\nrole: R\naddress: é\n
      <<"m", "n", "t", "n", "e", "r", ":", " ", "A", "\n", "\n", "p", "e", "r", "s", "o", "n", ":", " ", "J", "\n">>,
         \* mntner: A\n\nperson: J\n
      \* a class or attribute keyword that no colon follows
      <<"m", "n", "t", "n", "e", "r", " ", "A", "\n">>,
         \* mntner A\n
      <<"r", "o", "u", "t", "e", " ", "x", "\n">>,
         \* route x\n
      <<"m", "n", "t", "n", "e", "r", ":", " ", "A", "\n", "r", "e", "m", "a", "r", "xE2", "x84", "xAA", "s", ":", " ", "x", "\n">>,
         \* mntner: A\nremar(U+212A)s: x\n
      <<"M", "N", "T", "N", "E", "R", ":", " ", "A", "\n", "D", "e", "s", "c", "r", ":", " ", "d", "\n">>,
         \* MNTNER: A\nDescr: d\n
      <<"p", "e", "r", "s", "o", "n", "\n">>,
         \* person\n
      <<"a", "u", "t", "-", "n", "u", "m", ";", "A", "S", "1", "\n">>,
         \* aut-num;AS1\n
      <<"m", "n", "t", "n", "e", "r", ":", " ", "A", "\n", "d", "e", "s", "c", "r", " ", "d", "\n">>,
         \* mntner: A\ndescr d\n
      <<"m", "n", "t", "n", "e", "r", ":", " ", "A", "\n", "a", "u", "t", "h", "\n">>,
         \* mntner: A\nauth\n
      <<"p", "e", "r", "s", "o", "n", ":", " ", "J", "\n", "m", "n", "t", "-", "b", "y", ":", " ", "A", "\n", "+", " ", "B", "\n", "r", "e", "m", "a", "r", "k", "s", " ", "x", "\n", "+", " ", "y", "\n">>,
         \* person: J\nmnt-by: A\n+ B\nremarks x\n+ y\n
      \* continuation lines
      <<"m", "n", "t", "n", "e", "r", ":", " ", "A", "\n", "d", "e", "s", "c", "r", ":", " ", "d", "\n", "+", " ", "e", "\n", "\t", "f", "\n", " ", "g", "\n">>,
         \* mntner: A\ndescr: d\n+ e\n\tf\n g\n
      <<"p", "e", "r", "s", "o", "n", ":", " ", "J", "\n", "m", "n", "t", "-", "b", "y", ":", " ", "A", "\n", "+", " ", "B", ",", "C", "\n", " ", "D", "\n">>,
         \* person: J\nmnt-by: A\n+ B,C\n D\n
      <<"m", "n", "t", "n", "e", "r", ":", " ", "A", "\n", "+", " ", "B", "\n">>,
         \* mntner: A\n+ B\n
      <<"p", "e", "r", "s", "o", "n", ":", " ", "J", "\n", "d", "e", "s", "c", "r", ":", " ", "d", "\n", "m", "n", "t", "-", "b", "y", ":", " ", "A", "\n", "+", " ", "B", "\n", "+", " ", "1", "\n">>,
         \* person: J\ndescr: d\nmnt-by: A\n+ B\n+ 1\n
      <<"m", "n", "t", "n", "e", "r", ":", " ", "A", "\n", "a", "u", "t", "h", ":", " ", "N", "O", "N", "E", "\n", "+", " ", "N", "O", "N", "E", "\n">>,
         \* mntner: A\nauth: NONE\n+ NONE\n
      \* NIC handle lists
      <<"m", "n", "t", "n", "e", "r", ":", " ", "A", "\n", "m", "n", "t", "-", "b", "y", ":", " ", "A", "1", ",", "B", "-", "2", ",", " ", "C", "_", "3", "\n">>,
         \* mntner: A\nmnt-by: A1,B-2, C_3\n
      <<"m", "n", "t", "n", "e", "r", ":", " ", "A", "\n", "m", "n", "t", "-", "b", "y", ":", " ", "A", " ", ",", "B", "\n">>,
         \* mntner: A\nmnt-by: A ,B\n
      <<"m", "n", "t", "n", "e", "r", ":", " ", "A", "\n", "m", "n", "t", "-", "b", "y", ":", " ", "A", ",", "\n">>,
         \* mntner: A\nmnt-by: A,\n
      <<"m", "n", "t", "n", "e", "r", ":", " ", "A", "\n", "m", "n", "t", "-", "b", "y", ":", " ", "A", ",", "1", "\n">>,
         \* mntner: A\nmnt-by: A,1\n
      <<"m", "n", "t", "n", "e", "r", ":", " ", "A", "\n", "t", "e", "c", "h", "-", "c", ":", " ", "1", "A", "\n">>,
         \* mntner: A\ntech-c: 1A\n
      <<"m", "n", "t", "n", "e", "r", ":", " ", "A", "\n", "a", "d", "m", "i", "n", "-", "c", ":", " ", "a", "\t", ",", "\t", "B", " ", "\n">>,
         \* mntner: A\nadmin-c: a\t,\tB \n
      <<"m", "n", "t", "n", "e", "r", ":", " ", "A", "\n", "n", "i", "c", "-", "h", "d", "l", ":", " ", "A", "B", "\n">>,
         \* mntner: A\nnic-hdl: AB\n
      <<"m", "n", "t", "n", "e", "r", ":", " ", "A", ",", ",", "B", "\n">>,
         \* mntner: A,,B\n
      \* auth values
      <<"m", "n", "t", "n", "e", "r", ":", " ", "A", "\n", "a", "u", "t", "h", ":", " ", "P", "G", "P", "K", "e", "y", "-", "8", "0", "F", "2", "3", "8", "C", "6", "\n">>,
         \* mntner: A\nauth: PGPKey-80F238C6\n
      <<"m", "n", "t", "n", "e", "r", ":", " ", "A", "\n", "a", "u", "t", "h", ":", " ", "C", "R", "Y", "P", "T", "-", "P", "W", " ", "L", "E", "u", "u", "h", "s", "B", "J", "N", "F", "V", "0", "Q", " ", " ", "#", " ", "c", "\n">>,
         \* mntner: A\nauth: CRYPT-PW LEuuhsBJNFV0Q  # c\n
      <<"m", "n", "t", "n", "e", "r", ":", " ", "A", "\n", "a", "u", "t", "h", ":", " ", "M", "D", "5", "-", "p", "w", " ", "$", "1", "$", "f", "g", "W", "8", "4", "Y", "9", "r", "$", "k", "K", "E", "n", "9", "M", ".", "\n">>,
         \* mntner: A\nauth: MD5-pw $1$fgW84Y9r$kKEn9M.\n
      <<"m", "n", "t", "n", "e", "r", ":", " ", "A", "\n", "a", "u", "t", "h", ":", " ", "M", "A", "I", "L", "-", "F", "R", "O", "M", " ", "a", "@", "b", ".", "c", "\n">>,
         \* mntner: A\nauth: MAIL-FROM a@b.c\n
      <<"m", "n", "t", "n", "e", "r", ":", " ", "A", "\n", "a", "u", "t", "h", ":", " ", "N", "O", "N", "E", "\n">>,
         \* mntner: A\nauth: NONE\n
      <<"m", "n", "t", "n", "e", "r", ":", " ", "A", "\n", "a", "u", "t", "h", ":", " ", "n", "o", "n", "e", "\n">>,
         \* mntner: A\nauth: none\n
      <<"m", "n", "t", "n", "e", "r", ":", " ", "A", "\n", "a", "u", "t", "h", ":", " ", "p", "g", "p", "k", "e", "y", "-", "0", "1", "2", "3", "a", "b", "c", "d", "\n">>,
         \* mntner: A\nauth: pgpkey-0123abcd\n
      <<"m", "n", "t", "n", "e", "r", ":", " ", "A", "\n", "a", "u", "t", "h", ":", " ", "P", "G", "P", "K", "e", "y", "-", "8", "0", "F", "2", "\n">>,
         \* mntner: A\nauth: PGPKey-80F2\n
      <<"m", "n", "t", "n", "e", "r", ":", " ", "A", "\n", "a", "u", "t", "h", ":", " ", "X", "\n">>,
         \* mntner: A\nauth: X\n
      <<"m", "n", "t", "n", "e", "r", ":", " ", "A", "\n", "a", "u", "t", "h", ":", " ", "M", "D", "5", " ", "p", "w", "\n">>,
         \* mntner: A\nauth: MD5 pw\n
      <<"m", "n", "t", "n", "e", "r", ":", " ", "A", "\n", "a", "u", "t", "h", ":", " ", "C", "R", "Y", "P", "T", "-", "P", "W", " ", "s", "h", "o", "r", "t", "\n">>,
         \* mntner: A\nauth: CRYPT-PW short\n
      \* policy values
      <<"a", "u", "t", "-", "n", "u", "m", ":", " ", "A", "S", "1", "\n", "e", "x", "p", "o", "r", "t", ":", " ", "t", "o", " ", "A", "S", "1", "7", "4", " ", "a", "n", "n", "o", "u", "n", "c", "e", " ", "A", "S", "-", "S", "E", "T", "T", "E", "S", "T", "\n">>,
         \* aut-num: AS1\nexport: to AS174 announce AS-SETTEST\n
      <<"a", "u", "t", "-", "n", "u", "m", ":", " ", "A", "S", "1", "\n", "e", "x", "p", "o", "r", "t", ":", " ", "t", "o", " ", "A", "S", "1", " ", "a", "n", "n", "o", "u", "n", "c", "e", " ", "A", "S", "2", " ", "\n">>,
         \* aut-num: AS1\nexport: to AS1 announce AS2 \n
      <<"a", "u", "t", "-", "n", "u", "m", ":", " ", "A", "S", "1", "\n", "i", "m", "p", "o", "r", "t", ":", " ", "f", "r", "o", "m", " ", "A", "S", "1", " ", "a", "c", "c", "e", "p", "t", " ", "A", "N", "Y", "\n">>,
         \* aut-num: AS1\nimport: from AS1 accept ANY\n
      <<"a", "u", "t", "-", "n", "u", "m", ":", " ", "A", "S", "1", "\n", "i", "m", "p", "o", "r", "t", ":", " ", "f", "r", "o", "m", " ", "A", "S", "1", " ", "a", "c", "c", "e", "p", "t", " ", "A", "S", "-", "A", "-", "B", "\t", "#", " ", "c", "\n">>,
         \* aut-num: AS1\nimport: from AS1 accept AS-A-B\t# c\n
      <<"a", "u", "t", "-", "n", "u", "m", ":", " ", "A", "S", "1", "\n", "m", "p", "-", "e", "x", "p", "o", "r", "t", ":", " ", "a", "f", "i", " ", "i", "p", "v", "4", " ", "t", "o", " ", "A", "S", "1", " ", "a", "n", "n", "o", "u", "n", "c", "e", " ", "A", "S", "2", " ", "A", "S", "3", "\n">>,
         \* aut-num: AS1\nmp-export: afi ipv4 to AS1 announce AS2 AS3\n
      <<"a", "u", "t", "-", "n", "u", "m", ":", " ", "A", "S", "1", "\n", "m", "p", "-", "i", "m", "p", "o", "r", "t", ":", " ", "a", "f", "i", " ", "i", "p", "v", "6", ".", "u", "n", "i", "c", "a", "s", "t", " ", "f", "r", "o", "m", " ", "A", "S", "9", "0", "0", "2", " ", "a", "c", "c", "e", "p", "t", " ", "A", "N", "Y", "\n">>,
         \* aut-num: AS1\nmp-import: afi ipv6.unicast from AS9002 accept ANY\n
      <<"a", "u", "t", "-", "n", "u", "m", ":", " ", "A", "S", "1", "\n", "e", "x", "p", "o", "r", "t", ":", " ", "t", "o", " ", "A", "S", "1", " ", "a", "n", "n", "o", "u", "n", "c", "e", " ", "A", "S", "-", "A", "-", "B", "\n">>,
         \* aut-num: AS1\nexport: to AS1 announce AS-A-B\n
      <<"a", "u", "t", "-", "n", "u", "m", ":", " ", "A", "S", "1", "\n", "e", "x", "p", "o", "r", "t", ":", " ", "a", "n", "n", "o", "u", "n", "c", "e", " ", "A", "S", "2", "\n">>,
         \* aut-num: AS1\nexport: announce AS2\n
      \* autonomous system values
      <<"a", "u", "t", "-", "n", "u", "m", ":", " ", "A", "S", "7", "0", "1", "\n">>,
         \* aut-num: AS701\n
      <<"a", "u", "t", "-", "n", "u", "m", ":", " ", "a", "s", "0", "6", "5", "5", "3", "7", "\n">>,
         \* aut-num: as065537\n
      <<"a", "u", "t", "-", "n", "u", "m", ":", " ", "A", "S", "-", "1", "2", "-", "\n">>,
         \* aut-num: AS-12-\n
      <<"a", "u", "t", "-", "n", "u", "m", ":", " ", "A", "S", "\n">>,
         \* aut-num: AS\n
      <<"a", "u", "t", "-", "n", "u", "m", ":", " ", "X", "1", "\n">>,
         \* aut-num: X1\n
      <<"a", "u", "t", "-", "n", "u", "m", ":", " ", "A", "S", "1", "2", "A", "\n">>,
         \* aut-num: AS12A\n
      \* attributes with an empty value
      <<"m", "n", "t", "n", "e", "r", ":", " ", "A", "\n", "d", "e", "s", "c", "r", ":", " ", "\t", "\n", "r", "e", "m", "a", "r", "k", "s", ":", " ", "r", "\n">>,
         \* mntner: A\ndescr: \t\nremarks: r\n
      <<"m", "n", "t", "n", "e", "r", ":", " ", "A", "\n", "s", "o", "u", "r", "c", "e", ":", "\n", "d", "e", "s", "c", "r", ":", " ", "d", "\n">>,
         \* mntner: A\nsource:\ndescr: d\n
      \* a value that stops in the middle of its line
      <<"m", "n", "t", "n", "e", "r", ":", " ", "A", "\n", "m", "n", "t", "-", "b", "y", ":", " ", "A", " ", "d", "e", "s", "c", "r", ":", " ", "x", "\n">>,
         \* mntner: A\nmnt-by: A descr: x\n
      <<"p", "e", "r", "s", "o", "n", ":", " ", "x", "\n", "p", "h", "o", "n", "e", ":", " ", "+", "1", " ", "2", " ", "3", " ", "4", " ", "+", "5", "\n">>,
         \* person: x\nphone: +1 2 3 4 +5\n
      \* a comment after a value, before a line of text and before a blank line
      <<"m", "n", "t", "n", "e", "r", ":", " ", "A", " ", "#", " ", "c", "\n", "d", "e", "s", "c", "r", ":", " ", "x", "\n">>,
         \* mntner: A # c\ndescr: x\n
      <<"m", "n", "t", "n", "e", "r", ":", " ", "A", " ", "#", " ", "c", "\n", "\n", "d", "e", "s", "c", "r", ":", " ", "x", "\n">>,
         \* mntner: A # c\n\ndescr: x\n
      <<"m", "n", "t", "n", "e", "r", ":", " ", "A", "\n", "m", "n", "t", "-", "b", "y", ":", " ", "B", "\t", "#", "c", "\n", "\n">>,
         \* mntner: A\nmnt-by: B\t#c\n\n
      \* changed: an email and a date
      <<"p", "e", "r", "s", "o", "n", ":", " ", "x", "\n", "c", "h", "a", "n", "g", "e", "d", ":", " ", "J", ".", "D", "o", "e", "@", "E", "x", "-", "1", ".", "o", "r", "g", " ", "\t", "2", "0", "1", "9", "0", "7", "0", "1", "\n", "s", "o", "u", "r", "c", "e", ":", " ", "T", "\n">>,
         \* person: x\nchanged: J.Doe@Ex-1.org \t20190701\nsource: T\n
      <<"p", "e", "r", "s", "o", "n", ":", " ", "x", "\n", "c", "h", "a", "n", "g", "e", "d", ":", " ", "a", "@", "b", " ", "2", "0", "1", "9", "0", "7", "0", "\n", "s", "o", "u", "r", "c", "e", ":", " ", "T", "\n">>,
         \* person: x\nchanged: a@b 2019070\nsource: T\n
      <<"p", "e", "r", "s", "o", "n", ":", " ", "x", "\n", "c", "h", "a", "n", "g", "e", "d", ":", " ", "a", "_", "b", "@", "c", ":", "d", "\t", "2", "0", "1", "9", "0", "7", "0", "1", "\n">>,
         \* person: x\nchanged: a_b@c:d\t20190701\n
      \* MD5 passwords with a salt of less than 8 characters
      <<"m", "n", "t", "n", "e", "r", ":", " ", "A", "\n", "a", "u", "t", "h", ":", " ", "M", "D", "5", "-", "p", "w", " ", "$", "1", "$", "a", "b", "$", "k", "K", "E", "n", "9", "M", ".", "\n">>,
         \* mntner: A\nauth: MD5-pw $1$ab$kKEn9M.\n
      <<"m", "n", "t", "n", "e", "r", ":", " ", "A", "\n", "a", "u", "t", "h", ":", " ", "M", "D", "5", "-", "p", "w", " ", "$", "1", "$", "a", "$", "b", "\n">>,
         \* mntner: A\nauth: MD5-pw $1$a$b\n
      \* policies with an action list
      <<"a", "u", "t", "-", "n", "u", "m", ":", " ", "A", "S", "1", "\n", "e", "x", "p", "o", "r", "t", ":", " ", "t", "o", " ", "A", "S", "1", " ", "a", "c", "t", "i", "o", "n", " ", "p", "r", "e", "f", " ", "=", " ", "1", "0", "0", ";", " ", "a", "n", "n", "o", "u", "n", "c", "e", " ", "A", "S", "2", "\n">>,
         \* aut-num: AS1\nexport: to AS1 action pref = 100; announce AS2\n
      <<"a", "u", "t", "-", "n", "u", "m", ":", " ", "A", "S", "1", "\n", "i", "m", "p", "o", "r", "t", ":", " ", "f", "r", "o", "m", " ", "A", "S", "1", " ", "a", "c", "t", "i", "o", "n", " ", "p", "r", "e", "f", "=", "1", ";", " ", "a", "c", "t", "i", "o", "n", " ", "m", "e", "d", "=", "0", ";", " ", "a", "c", "c", "e", "p", "t", " ", "A", "N", "Y", "\n">>,
         \* aut-num: AS1\nimport: from AS1 action pref=1; action med=0; accept ANY\n
      <<"a", "u", "t", "-", "n", "u", "m", ":", " ", "A", "S", "1", "\n", "e", "x", "p", "o", "r", "t", ":", " ", "t", "o", " ", "A", "S", "1", " ", "a", "c", "t", "i", "o", "n", "p", "r", "e", "f", " ", "=", " ", "1", "0", "0", ";", " ", "a", "n", "n", "o", "u", "n", "c", "e", " ", "A", "S", "2", "\n">>,
         \* aut-num: AS1\nexport: to AS1 actionpref = 100; announce AS2\n
      \* multi-protocol policies with lists of address families
      <<"a", "u", "t", "-", "n", "u", "m", ":", " ", "A", "S", "1", "\n", "m", "p", "-", "i", "m", "p", "o", "r", "t", ":", " ", "a", "f", "i", " ", "i", "p", "v", "5", " ", "f", "r", "o", "m", " ", "A", "S", "1", " ", "a", "c", "c", "e", "p", "t", " ", "A", "N", "Y", "\n">>,
         \* aut-num: AS1\nmp-import: afi ipv5 from AS1 accept ANY\n
      <<"a", "u", "t", "-", "n", "u", "m", ":", " ", "A", "S", "1", "\n", "m", "p", "-", "e", "x", "p", "o", "r", "t", ":", " ", "a", "f", "i", " ", "i", "p", "v", "4", ",", "a", "n", "y", ".", "u", "n", "i", "c", "a", "s", "t", " ", "t", "o", " ", "A", "S", "1", " ", "a", "n", "n", "o", "u", "n", "c", "e", " ", "A", "S", "2", "\n">>,
         \* aut-num: AS1\nmp-export: afi ipv4,any.unicast to AS1 announce AS2\n
      <<"a", "u", "t", "-", "n", "u", "m", ":", " ", "A", "S", "1", "\n", "m", "p", "-", "i", "m", "p", "o", "r", "t", ":", " ", "a", "f", "i", " ", "i", "p", "v", "4", ".", "a", "n", "y", "c", "a", "s", "t", " ", "f", "r", "o", "m", " ", "A", "S", "1", " ", "a", "c", "c", "e", "p", "t", " ", "A", "N", "Y", "\n">>,
         \* aut-num: AS1\nmp-import: afi ipv4.anycast from AS1 accept ANY\n
      <<"a", "u", "t", "-", "n", "u", "m", ":", " ", "A", "S", "1", "\n", "m", "p", "-", "e", "x", "p", "o", "r", "t", ":", " ", "a", "f", "i", " ", "i", "p", "v", "6", ".", "u", "n", "i", "c", "a", "s", "t", ",", "i", "p", "v", "4", "t", "o", " ", "A", "S", "1", " ", "a", "n", "n", "o", "u", "n", "c", "e", " ", "A", "S", "2", "\n">>,
         \* aut-num: AS1\nmp-export: afi ipv6.unicast,ipv4to AS1 announce AS2\n
      <<"a", "u", "t", "-", "n", "u", "m", ":", " ", "A", "S", "1", "\n", "m", "p", "-", "e", "x", "p", "o", "r", "t", ":", " ", "a", "f", "i", " ", "I", "P", "v", "4", ",", "i", "p", "v", "6", ".", "m", "u", "l", "t", "i", "c", "a", "s", "t", " ", "t", "o", " ", "A", "S", "1", " ", "a", "n", "n", "o", "u", "n", "c", "e", " ", "A", "S", "2", "\n">> }
         \* aut-num: AS1\nmp-export: afi IPv4,ipv6.multicast to AS1 announce AS2\n

\* ------------------------------------------------------------- the scans

\* the condition of the loop of run: state != nil
InLoop(st) == st \in {"lexObjectClass", "lexClassAttributes"}

\* the calls state(l) the loop of run makes on inputText from the state
\* function st and the cursor c on, in order: the state function, the
\* cursor it is called with and the lexer it leaves.  A call that never
\* returns is the last.
RECURSIVE CallsFrom(_, _, _)
CallsFrom(st, inputText, c) ==
    IF ~InLoop(st) THEN <<>>
    ELSE Bind(CallState(st, inputText, c), LAMBDA res :
             <<[state |-> st, cur |-> c, res |-> res]>>
             \o IF res.hung THEN <<>>
                ELSE CallsFrom(res.next, inputText, Cursor(res)))

\* the calls of the loop of run on inputText, from the lexer as Lex
\* constructs it
Calls(inputText) ==
    CallsFrom("lexObjectClass", inputText, Cursor(NewLexer(inputText)))

\* state(l) where the loop of run stands with the state function st and the
\* cursor c, among the calls of the scan
StateCall(scan, st, c) ==
    (CHOOSE e \in Range(scan) : e.state = st /\ e.cur = c).res

\* the tokens of a sequence of calls, in the order of their emits
RECURSIVE Emitted(_)
Emitted(calls) ==
    IF calls = <<>> THEN <<>>
    ELSE [i \in 1..Len(Head(calls).res.out) |-> Head(calls).res.out[i].tok]
         \o Emitted(Tail(calls))

\* the whole scan of a text as a function: the tokens the state machine
\* emits, in order
Tokens(inputText) == Emitted(Calls(inputText))

\* ---------------------------------------------------- producer and consumer

\* make(chan token.Token, 2)
ChanCap == 2

\* a channel whose send never blocks
ChanNeverFull(q) == FALSE

\* a channel whose buffer holds two tokens more
ChanFullLater(q) == Len(q) >= ChanCap + 2

\* a send blocks while the buffer of the channel is full
ChanFull(q) == Len(q) >= ChanCap

\* a send that drops the token when another is buffered
ChanSendLossy(q, tok) == IF q = <<>> THEN <<tok>> ELSE q

\* l.tokens <- tok
ChanSend(q, tok) == Append(q, tok)

\* a receive that takes the newest buffered token
ChanRecvLast(q) == [val |-> q[Len(q)], rest |-> SubSeq(q, 1, Len(q) - 1)]

\* <-l.tokens on a channel with a buffered token
ChanRecv(q) == [val |-> Head(q), rest |-> Tail(q)]

\* the two independent scans (Lex calls) of the same input text
Runs == {1, 2}

VARIABLES
    input,      \* the input text of the Lex calls
    calls,      \* calls[r]: the calls state(l) of the loop of run of lexer
                \* r; the lexer reads nothing but its input text, which
                \* fixes them
    cur,        \* cur[r]: the cursor of lexer r, at the point where the
                \* producer goroutine stands
    state,      \* state[r]: the variable state of run, "spin" inside a loop
                \* that never ends, "done" after close
    pend,       \* pend[r]: the emits of the running state function whose
                \* send has not happened yet; the producer is inside the
                \* first of them
    after,      \* after[r]: the cursor with which the running state
                \* function returns
    chan,       \* chan[r]: the buffer of the channel tokens
    log,        \* log[r]: the sends and closes of the producer, in order
    received,   \* received[r]: what the calls of NextToken returned
    extra,      \* extra[r]: the calls of NextToken that found the channel
                \* closed and drained
    stopped,    \* stopped[r]: the consumer has stopped calling NextToken
    call        \* the call of accept or acceptExcept on lexer 1 that a
                \* caller outside run has made last, with the statement
                \* it stands at (CursorSpec)

vars == <<input, calls, cur, state, pend, after, chan, log, received, extra, stopped, call>>

\* the tokens the producer has sent
Sent(r) ==
    LET sends == SelectSeq(log[r], LAMBDA e : e.op = "send") IN
    [i \in 1..Len(sends) |-> sends[i].tok]

\* the number of times the producer has closed the channel
Closes(r) == Len(SelectSeq(log[r], LAMBDA e : e.op = "close"))

Closed(r) == Closes(r) > 0

\* Lex: the lexer as constructed, the channel empty, the goroutine started
Started ==
    /\ calls = [r \in Runs |-> Calls(input)]
    /\ cur = [r \in Runs |-> Cursor(NewLexer(input))]
    /\ state = [r \in Runs |-> "lexObjectClass"]
    /\ pend = [r \in Runs |-> <<>>]
    /\ after = [r \in Runs |-> Cursor(NewLexer(input))]
    /\ chan = [r \in Runs |-> <<>>]
    /\ log = [r \in Runs |-> <<>>]
    /\ received = [r \in Runs |-> <<>>]
    /\ extra = [r \in Runs |-> 0]
    /\ stopped = [r \in Runs |-> FALSE]
    /\ call = [op |-> "none", valid |-> {}, pc |-> "idle", r |-> NulRune,
               ok |-> FALSE, before |-> Cursor(NewLexer(input)), unread |-> 0]

Init ==
    /\ input \in Inputs
    /\ Started

InitPair ==
    /\ input \in PairInputs
    /\ Started

\* Lex on one of the texts of ScanInputs
InitScan ==
    /\ input \in ScanInputs
    /\ Started

\* a close that may also happen between two state functions of the loop
AtLoopExitEarly(r) == pend[r] = <<>> /\ state[r] \in {"nil", "lexClassAttributes"}

\* the place of close(l.tokens) in run: after the loop, when the last state
\* function has returned nil
AtLoopExit(r) == pend[r] = <<>> /\ state[r] = "nil"

\* the producer after it has entered the call of a state function whose
\* result is res: it stands at the first emit of the call, or at the end of
\* the call when the call emits nothing
Entered(r, res) ==
    /\ pend' = [pend EXCEPT ![r] = res.out]
    /\ after' = [after EXCEPT ![r] = Cursor(res)]
    /\ cur' = [cur EXCEPT ![r] = IF res.out = <<>> THEN Cursor(res)
                                 ELSE res.out[1].at]
    /\ state' = [state EXCEPT ![r] = IF res.hung THEN "spin" ELSE res.next]

\* state = state(l): the producer runs the state function up to its first
\* emit, or to its end when it emits nothing
ProducerStep(r) ==
    /\ InLoop(state[r])
    /\ pend[r] = <<>>
    /\ Entered(r, StateCall(calls[r], state[r], cur[r]))
    /\ UNCHANGED <<call, input, calls, chan, log, received, extra, stopped>>

\* the send of emit, then start = pos and the state function runs on to its
\* next emit or to its end
Send(r) ==
    /\ pend[r] /= <<>>
    /\ ~ChanFull(chan[r])
    /\ chan' = [chan EXCEPT ![r] = ChanSend(chan[r], Head(pend[r]).tok)]
    /\ log' = [log EXCEPT ![r] = Append(log[r], [op |-> "send", tok |-> Head(pend[r]).tok])]
    /\ pend' = [pend EXCEPT ![r] = Tail(pend[r])]
    /\ cur' = [cur EXCEPT ![r] = IF Len(pend[r]) = 1 THEN after[r]
                                 ELSE pend[r][2].at]
    /\ UNCHANGED <<call, input, calls, state, after, received, extra, stopped>>

\* close(l.tokens), after which run returns
Close(r) ==
    /\ AtLoopExit(r)
    /\ log' = [log EXCEPT ![r] = Append(log[r], [op |-> "close", tok |-> ZeroToken])]
    /\ state' = [state EXCEPT ![r] = IF state[r] = "nil" THEN "done" ELSE state[r]]
    /\ UNCHANGED <<call, input, calls, cur, pend, after, chan, received, extra, stopped>>

\* NextToken: return <-l.tokens.  A buffered token is returned, also after
\* the close; on a closed and drained channel the receive returns the zero
\* Token at once; on an empty open channel it waits.
NextToken(r) ==
    /\ ~stopped[r]
    /\ \/ /\ chan[r] /= <<>>
          /\ received' = [received EXCEPT ![r] = Append(received[r], ChanRecv(chan[r]).val)]
          /\ chan' = [chan EXCEPT ![r] = ChanRecv(chan[r]).rest]
          /\ UNCHANGED extra
       \/ /\ chan[r] = <<>>
          /\ Closed(r)
          /\ extra[r] < MaxExtra
          /\ received' = [received EXCEPT ![r] = Append(received[r], ZeroToken)]
          /\ extra' = [extra EXCEPT ![r] = extra[r] + 1]
          /\ UNCHANGED chan
    /\ UNCHANGED <<call, input, calls, cur, state, pend, after, log, stopped>>

\* the consumer abandons the scan: it calls NextToken no more
Stop(r) ==
    /\ ~stopped[r]
    /\ stopped' = [stopped EXCEPT ![r] = TRUE]
    /\ UNCHANGED <<call, input, calls, cur, state, pend, after, chan, log, received, extra>>

\* one scan
Next ==
    \/ ProducerStep(1)
    \/ Send(1)
    \/ Close(1)
    \/ NextToken(1)
    \/ Stop(1)

Spec == Init /\ [][Next]_vars

\* The goroutine of run is scheduled as long as it can take a step, and a
\* consumer that has not stopped goes on calling NextToken.
Fairness ==
    /\ WF_vars(ProducerStep(1))
    /\ WF_vars(Send(1))
    /\ WF_vars(Close(1))
    /\ WF_vars(NextToken(1))

LiveSpec == Init /\ [][Next]_vars /\ Fairness

\* two scans of the same text, each with its own consumer
NextPair ==
    \E r \in Runs :
        \/ ProducerStep(r)
        \/ Send(r)
        \/ Close(r)
        \/ NextToken(r)

PairSpec == InitPair /\ [][NextPair]_vars

\* one scan whose consumer reads to the end
NextScan ==
    \/ ProducerStep(1)
    \/ Send(1)
    \/ Close(1)
    \/ NextToken(1)

ScanSpec == InitScan /\ [][NextScan]_vars

\* ------------------------------------------------- the cursor operations

\* the length of the longest text of CursorInputs
MaxText == 3

\* every text of up to MaxText bytes of: a letter in both cases, the line
\* feed, and the two bytes of U+00E9 (alone they are invalid UTF-8)
CursorInputs ==
    UNION {[1..n -> {"a", "A", "\n", "xC3", "xA9"}] : n \in 0..MaxText}

\* Lex on one of the texts of CursorInputs; no call has been made
InitCursor ==
    /\ input \in CursorInputs
    /\ Started

\* a caller enters l.accept(valid) or l.acceptExcept(valid) and executes
\* valid = strings.ToLower(valid) + strings.ToUpper(valid)
Enter(op, valid) ==
    /\ call.pc = "idle"
    /\ call' = [call EXCEPT !.op = op, !.valid = valid, !.pc = "read",
                            !.before = cur[1]]
    /\ UNCHANGED <<input, calls, cur, state, pend, after, chan, log, received,
                   extra, stopped>>

\* strings.IndexRune(valid, l.readRune()) and the comparison of the if:
\* return true, or go on to the backup
Read ==
    /\ call.pc = "read"
    /\ cur' = [cur EXCEPT ![1] = Cursor(readRune(LexerAt(input, cur[1])))]
    /\ call' = [call EXCEPT
                   !.r = readRune(LexerAt(input, cur[1])).r,
                   !.unread = 0,
                   !.ok = TRUE,
                   !.pc = IF (call.op = "accept")
                               = IndexRune(Fold(call.valid),
                                           readRune(LexerAt(input, cur[1])).r)
                          THEN "idle" ELSE "backup"]
    /\ UNCHANGED <<input, calls, state, pend, after, chan, log, received,
                   extra, stopped>>

\* a backup that may also run once more after the call has returned false
BackupAgain ==
    /\ \/ call.pc = "backup"
       \/ /\ call.pc = "idle"
          /\ call.op /= "none"
          /\ ~call.ok
          /\ cur[1].pos >= cur[1].lastRuneWidth + 1
    /\ cur' = [cur EXCEPT ![1] = Cursor(backup(LexerAt(input, cur[1])))]
    /\ call' = [call EXCEPT !.unread = call.unread + 1, !.ok = FALSE,
                            !.pc = "idle"]
    /\ UNCHANGED <<input, calls, state, pend, after, chan, log, received,
                   extra, stopped>>

\* l.backup(); return false
Backup ==
    /\ call.pc = "backup"
    /\ cur' = [cur EXCEPT ![1] = Cursor(backup(LexerAt(input, cur[1])))]
    /\ call' = [call EXCEPT !.unread = call.unread + 1, !.ok = FALSE,
                            !.pc = "idle"]
    /\ UNCHANGED <<input, calls, state, pend, after, chan, log, received,
                   extra, stopped>>

\* a peek that reads the character with readRune and does not back up
PeekByReadRune ==
    /\ call.pc = "idle"
    /\ cur' = [cur EXCEPT ![1] = Cursor(readRune(LexerAt(input, cur[1])))]
    /\ call' = [call EXCEPT !.op = "peek", !.r = peek(LexerAt(input, cur[1]))]
    /\ UNCHANGED <<input, calls, state, pend, after, chan, log, received,
                   extra, stopped>>

\* l.peek(): the character at pos is returned and no field is assigned
Peek ==
    /\ call.pc = "idle"
    /\ call' = [call EXCEPT !.op = "peek", !.r = peek(LexerAt(input, cur[1]))]
    /\ UNCHANGED <<input, calls, cur, state, pend, after, chan, log, received,
                   extra, stopped>>

\* l.ignore()
Ignore ==
    /\ call.pc = "idle"
    /\ cur' = [cur EXCEPT ![1] = Cursor(ignore(LexerAt(input, cur[1])))]
    /\ call' = [call EXCEPT !.op = "ignore"]
    /\ UNCHANGED <<input, calls, state, pend, after, chan, log, received,
                   extra, stopped>>

\* l.emit(t): the send on the channel, which blocks while the buffer is
\* full (no consumer takes part here), and start = pos
Emit(t) ==
    /\ call.pc = "idle"
    /\ ~ChanFull(chan[1])
    /\ cur' = [cur EXCEPT ![1] = Cursor(emit(LexerAt(input, cur[1]), t))]
    /\ chan' = [chan EXCEPT ![1] =
                   ChanSend(chan[1], emit(LexerAt(input, cur[1]), t).out[1].tok)]
    /\ call' = [call EXCEPT !.op = "emit"]
    /\ UNCHANGED <<input, calls, state, pend, after, log, received, extra,
                   stopped>>

\* calls of accept and acceptExcept in any order, with the sets "abc",
\* newline and whitespace
NextCursor ==
    \/ \E op \in {"accept", "acceptExcept"} :
           \E valid \in {{"a", "b", "c"}, newline, whitespace} : Enter(op, valid)
    \/ Read
    \/ Backup

CursorSpec == InitCursor /\ [][NextCursor]_vars

\* ------------------------------------------------------------- properties

\* the tokens NextToken took from the buffer of the channel, without the
\* values it returned after it found the channel closed and drained
Delivered(r) == SubSeq(received[r], 1, Len(received[r]) - extra[r])

\* the values NextToken returned on the closed and drained channel
AfterClose(r) ==
    SubSeq(received[r], Len(received[r]) - extra[r] + 1, Len(received[r]))

\* the sentinels that end a scan
IsSentinel(tok) == tok.Type \in {EOF, ILLEGAL}

\* the text ends with a line feed
EndsWithLF(s) == s /= <<>> /\ s[Len(s)] = "\n"

\* C1: an ILLEGAL token is terminal: once the producer has sent a token of
\* kind ILLEGAL it sends no further token, so an ILLEGAL token is the last
\* token sent, for every input, also for a phone or fax-no value without
\* the leading plus or with a malformed ext. and for a changed value with a
\* malformed email.
C1_IllegalIsTerminal ==
    \A i \in 1..Len(Sent(1)) :
        Sent(1)[i].Type = ILLEGAL => i = Len(Sent(1))

\* C2: whenever the producer has closed the channel, the last token it sent
\* is of kind EOF or ILLEGAL; the loop of run ends (state nil) only after
\* a state function whose last emit is one of the two sentinels.
C2_CloseAfterSentinel ==
    /\ Closed(1) =>
          /\ Sent(1) /= <<>>
          /\ IsSentinel(Sent(1)[Len(Sent(1))])
    /\ (state[1] = "nil" /\ pend[1] = <<>>) =>
          /\ Sent(1) /= <<>>
          /\ IsSentinel(Sent(1)[Len(Sent(1))])
    /\ (state[1] = "nil" /\ pend[1] /= <<>>) =>
          IsSentinel(pend[1][Len(pend[1])].tok)

C2_Witness ==
    /\ Closed(1)
    /\ Sent(1)[Len(Sent(1))].Type = ILLEGAL
    /\ Len(Sent(1)) >= 3

\* C3: every EOF token the producer sends has an empty literal and line 0,
\* the producer sends at most one EOF token, and it sends no token after
\* it.
C3_EOFToken ==
    \A i \in 1..Len(Sent(1)) :
        Sent(1)[i].Type = EOF =>
            /\ Sent(1)[i].Literal = <<>>
            /\ Sent(1)[i].Line = 0
            /\ i = Len(Sent(1))

C3_Witness ==
    /\ Sent(1) /= <<>>
    /\ Sent(1)[Len(Sent(1))].Type = EOF
    /\ Len(Sent(1)) >= 3
    /\ cur[1].lineNum > 1

\* C4: for every input that ends with a line feed, if the consumer keeps
\* calling NextToken, the producer eventually has sent its final sentinel
\* (EOF or ILLEGAL), has left the loop of run and has closed the channel:
\* no state function and no accept run loops for ever.
C4_Terminates ==
    EndsWithLF(input) =>
        <>(\/ stopped[1]
           \/ /\ Closed(1)
              /\ state[1] = "done"
              /\ Sent(1) /= <<>>
              /\ IsSentinel(Sent(1)[Len(Sent(1))]))

C4_Witness ==
    /\ EndsWithLF(input)
    /\ ~stopped[1]
    /\ Closed(1)
    /\ Len(Sent(1)) >= 5

\* C5: in every interleaving of producer and consumer the tokens NextToken
\* has returned, followed by the buffered tokens, are the tokens the state
\* machine has emitted, in the same order, none lost, duplicated or
\* reordered; when the channel is closed and drained NextToken has returned
\* the whole token sequence of the scan.
C5_DeliveredInOrder ==
    /\ Delivered(1) \o chan[1] = Sent(1)
    /\ (Closed(1) /\ chan[1] = <<>>) => Delivered(1) = Tokens(input)

C5_Witness ==
    /\ Closed(1)
    /\ chan[1] = <<>>
    /\ Len(Delivered(1)) >= 5

\* C6: the producer closes the channel at most once, the close is the last
\* thing it does with the channel (no send follows a close), and when run
\* has returned it has closed the channel exactly once.
C6_ClosedOnce ==
    /\ Closes(1) <= 1
    /\ \A i \in 1..Len(log[1]) :
           log[1][i].op = "close" => i = Len(log[1])
    /\ Closed(1) => (state[1] = "done" /\ pend[1] = <<>>)
    /\ state[1] = "done" => Closes(1) = 1

C6_Witness ==
    /\ state[1] = "done"
    /\ Closes(1) = 1
    /\ Len(log[1]) >= 4
    /\ extra[1] > 0

\* a step while the producer is inside an emit with 2 tokens buffered
\* leaves the producer where it is; a step while the channel is empty and
\* open returns nothing to the consumer
C7_Suspended ==
    /\ (pend[1] /= <<>> /\ Len(chan[1]) = 2) =>
           /\ UNCHANGED <<cur, state, pend, after, log>>
           /\ (chan' /= chan => received' /= received)
    /\ (chan[1] = <<>> /\ ~Closed(1)) =>
           UNCHANGED <<received, extra>>

\* C7: the channel never holds more than 2 undelivered tokens; an emit
\* that finds 2 tokens buffered suspends the producer, whose cursor does
\* not change until the consumer takes a token; a NextToken on an empty
\* channel that is still open suspends the consumer until the producer
\* sends or closes.
C7_BoundedChannel ==
    /\ [](Len(chan[1]) <= 2)
    /\ [][C7_Suspended]_vars

C7_Witness ==
    /\ pend[1] /= <<>>
    /\ Len(chan[1]) = 2
    /\ received[1] /= <<>>

\* C8 as stated: what NextToken returns on the closed and drained channel
\* differs from every token the producer sent, and after an ILLEGAL token
\* the consumer is handed no token of kind EOF.
C8_TerminalIndicator ==
    \A i \in 1..Len(AfterClose(1)) :
        /\ \A j \in 1..Len(Sent(1)) : AfterClose(1)[i] /= Sent(1)[j]
        /\ Sent(1)[Len(Sent(1))].Type = ILLEGAL => AfterClose(1)[i].Type /= EOF

\* C8 amended: on the closed and drained channel NextToken does not block
\* and sends nothing back to the producer; it returns the zero Token, of
\* kind EOF with empty literal and line 0, which is the value of the EOF
\* token of the producer.
C8_ZeroTokenAfterClose ==
    /\ \A i \in 1..Len(AfterClose(1)) :
           AfterClose(1)[i] = [Type |-> "EOF", Literal |-> <<>>, Line |-> 0]
    /\ (Closed(1) /\ chan[1] = <<>> /\ ~stopped[1] /\ extra[1] < MaxExtra) =>
           ENABLED NextToken(1)
    /\ extra[1] > 0 => (Closed(1) /\ chan[1] = <<>>)

C8_Witness ==
    /\ extra[1] > 0
    /\ Sent(1)[Len(Sent(1))].Type = ILLEGAL

\* the consumer has stopped and the state machine has at least three
\* tokens left to emit
Abandoned == stopped[1] /\ Len(Emitted(calls[1])) - Len(Sent(1)) >= 3

\* C9: there is no cancellation: when the consumer stops calling NextToken
\* while the state machine has at least three tokens left to emit, the
\* producer never closes the channel and ends up inside an emit with 2
\* tokens buffered, where it stays for ever.
C9_NoCancellation ==
    /\ [](Abandoned => [](~Closed(1) /\ state[1] /= "done"))
    /\ (Abandoned ~> [](pend[1] /= <<>> /\ Len(chan[1]) = 2))

C9_Witness ==
    /\ Abandoned
    /\ pend[1] /= <<>>
    /\ Len(chan[1]) = 2

\* s is the start of t
IsPrefix(s, t) == Len(s) <= Len(t) /\ s = SubSeq(t, 1, Len(s))

RECURSIVE EmitsOf(_)
EmitsOf(cs) ==
    IF cs = <<>> THEN <<>> ELSE Head(cs).res.out \o EmitsOf(Tail(cs))

\* C11: every token sent other than EOF carries line = 1 + the number of
\* line feeds of the input before the end position of the token, and
\* wherever the producer stands between two state functions or inside an
\* emit, and wherever a state function returns, lineNum = 1 + the number of
\* line feeds in input[0:pos], also when an accept has read a line feed and
\* backed up over it.
C11_LineCountsLineFeeds ==
    /\ \A i \in 1..Len(Sent(1)) :
           Sent(1)[i].Type /= EOF =>
               Sent(1)[i].Line = 1 + Cardinality({k \in 1..EmitsOf(calls[1])[i].at.pos :
                                                 input[k] = "\n"})
    /\ cur[1].lineNum = 1 + Cardinality({k \in 1..cur[1].pos : input[k] = "\n"})
    /\ \A i \in 1..Len(calls[1]) :
           calls[1][i].res.lineNum = 1 + Cardinality({k \in 1..calls[1][i].res.pos : input[k] = "\n"})

C11_Witness ==
    /\ Len(Sent(1)) >= 3
    /\ Sent(1)[Len(Sent(1))].Line >= 2
    /\ cur[1].pos < Len(input)
    /\ input[cur[1].pos + 1] = "\n"
    /\ cur[1].lastRune = "\n"

\* C12: every token sent other than EOF carries a 1-based column equal to
\* the sum of the display widths of the characters of its line up to the
\* end of the token, the column restarting after each line feed. The bytes
\* of the model hold no wide character, so each character of a line counts
\* 1 and the second byte of a two-byte character counts 0.
C12_ColumnIsDisplayWidth ==
    \A i \in 1..Len(Sent(1)) :
        Sent(1)[i].Type /= EOF =>
            /\ "Column" \in DOMAIN Sent(1)[i]
            /\ Sent(1)[i].Column =
                   Cardinality({k \in 1..EmitsOf(calls[1])[i].at.pos :
                       /\ \A j \in k..EmitsOf(calls[1])[i].at.pos : input[j] /= "\n"
                       /\ ~(k > 1 /\ input[k - 1] = "xC3")})

\* ------------------------------------------------- classes and attributes

\* C13: a run lexes exactly one object: at most one object-class token is
\* sent and it is the first token of the run; where no attribute keyword
\* and no continuation marker matches after an attribute value, the token
\* sent next is EOF, also when the line of a second class follows the last
\* attribute line with no blank line in between.
C13_OneObjectPerRun ==
    \A i \in 1..Len(Sent(1)) :
        Sent(1)[i].Type \in {objectClasses[k][1] : k \in DOMAIN objectClasses}
                                \cup Range(todoClasses)
            => i = 1

\* C14: for an input that begins with one of the 13 object-class keywords
\* followed by a colon, the first token sent is the token of that class
\* with the keyword as its literal.
C14_ClassTokenFirst ==
    \A t \in {objectClasses[k][1] : k \in DOMAIN objectClasses}
                 \cup Range(todoClasses) :
        /\ Len(input) > Len(Name(t))
        /\ SubSeq(input, 1, Len(Name(t)) + 1) = Name(t) \o <<":">>
        /\ Len(Sent(1)) >= 1
        => /\ Sent(1)[1].Type = t
           /\ Sent(1)[1].Literal = Name(t)

\* the name tokens that lexAttrName emits: when the keyword of a class or
\* attribute name token is not directly followed by ':', the state function
\* that emitted it emits exactly one ILLEGAL token after it and returns nil:
\* it consumes nothing beyond the keyword, it leaves continuationPath as it
\* found it, it is the last call of the run, and no token is sent after the
\* ILLEGAL token
NameTokenWithoutColon ==
    /\ \A j \in 1..Len(calls[1]) : \A k \in 1..Len(calls[1][j].res.out) :
           /\ calls[1][j].res.out[k].tok.Type \in
                  {objectClasses[n][1] : n \in DOMAIN objectClasses}
                      \cup {classAttributes[n][1] : n \in DOMAIN classAttributes}
           /\ ~HasPrefix([input |-> input, pos |-> calls[1][j].res.out[k].at.pos], <<":">>)
           => /\ Len(calls[1][j].res.out) = k + 1
              /\ calls[1][j].res.out[k + 1].tok.Type = ILLEGAL
              /\ calls[1][j].res.out[k + 1].tok.Literal = <<>>
              /\ calls[1][j].res.next = "nil"
              /\ calls[1][j].res.pos = calls[1][j].res.out[k].at.pos
              /\ calls[1][j].res.continuationPath = calls[1][j].cur.continuationPath
              /\ j = Len(calls[1])
    /\ \A i \in 1..Len(Sent(1)) :
           /\ Sent(1)[i].Type \in
                  {objectClasses[n][1] : n \in DOMAIN objectClasses}
                      \cup {classAttributes[n][1] : n \in DOMAIN classAttributes}
           /\ ~HasPrefix([input |-> input, pos |-> EmitsOf(calls[1])[i].at.pos], <<":">>)
           => /\ Len(Sent(1)) <= i + 1
              /\ Len(Sent(1)) = i + 1 => Sent(1)[i + 1].Type = ILLEGAL
              /\ Closed(1) => Len(Sent(1)) = i + 1

\* C15: when a matched class or attribute keyword is not directly followed
\* by ':', the lexer emits the token of the keyword, then exactly one
\* ILLEGAL token, and halts: no value lexer is invoked, the continuation
\* target is not changed and no further token, not even EOF, is emitted.
\* For the class keyword at the start of the input: when one of the 13
\* class keywords matches there and no colon follows it, the first token
\* sent is the token of a class whose keyword matches, and never EOF.
C15_KeywordWithoutColon ==
    /\ NameTokenWithoutColon
    /\ \A t \in {objectClasses[k][1] : k \in DOMAIN objectClasses}
                    \cup Range(todoClasses) :
           /\ HasPrefixLower([input |-> input, pos |-> 0], Name(t))
           /\ ~HasPrefix([input |-> input, pos |-> Len(Name(t))], <<":">>)
           /\ Len(Sent(1)) >= 1
           => /\ Sent(1)[1].Type \in {objectClasses[k][1] : k \in DOMAIN objectClasses}
                                         \cup Range(todoClasses)
              /\ HasPrefixLower([input |-> input, pos |-> 0], Name(Sent(1)[1].Type))
              /\ Len(Sent(1)) <= 2
              /\ Len(Sent(1)) = 2 => Sent(1)[2].Type = ILLEGAL

\* C16: whenever a state function emits a continuation token, a class or
\* attribute name token followed by a colon has been emitted before, and
\* what the state function does after the continuation token and the
\* whitespace behind it is what the value lexer of the most recent such
\* name token does there: the same tokens, the same end position and the
\* same next state; continuationPath stays that value lexer, so the same
\* holds on every further continuation line.
C16_ContinuationUsesLastValueLexer ==
    \A j \in 1..Len(calls[1]) :
        /\ calls[1][j].res.out /= <<>>
        /\ calls[1][j].res.out[1].tok.Type = "ATTR_CONTINUATION"
        /\ Len(Sent(1)) >= Len(EmitsOf(SubSeq(calls[1], 1, j - 1))) + 1
        => LET out == calls[1][j].res.out
               before == EmitsOf(SubSeq(calls[1], 1, j - 1))
               names == {i \in 1..Len(before) :
                            /\ before[i].tok.Type \in
                                   {objectClasses[n][1] : n \in DOMAIN objectClasses}
                                       \cup {classAttributes[n][1] : n \in DOMAIN classAttributes}
                            /\ HasPrefix([input |-> input, pos |-> before[i].at.pos], <<":">>)}
           IN /\ names /= {}
              /\ LET last == CHOOSE i \in names : \A k \in names : k <= i
                     v == CallValue(valueStateFnOf(before[last].tok.Type),
                              ignore(acceptRun(
                                  [input |-> input, start |-> out[1].at.pos,
                                   pos |-> out[1].at.pos,
                                   lastRune |-> out[1].at.lastRune,
                                   lastRuneWidth |-> out[1].at.lastRuneWidth,
                                   lineNum |-> out[1].at.lineNum,
                                   continuationPath |-> out[1].at.continuationPath,
                                   r |-> NulRune, ok |-> FALSE, out |-> <<>>,
                                   hung |-> FALSE, next |-> "nil"], whitespace)),
                              "lexClassAttributes")
                 IN /\ [i \in 1..Len(v.out) |-> v.out[i].tok]
                           = [i \in 1..Len(out) - 1 |-> out[i + 1].tok]
                    /\ v.pos = calls[1][j].res.pos
                    /\ v.next = calls[1][j].res.next
                    /\ calls[1][j].res.continuationPath
                           = valueStateFnOf(before[last].tok.Type)

C16_Witness ==
    \E i \in 1..Len(Sent(1)) : \E k \in 1..Len(Sent(1)) - 1 :
        /\ i < k
        /\ Sent(1)[2].Type = "DATA_STRING"
        /\ Sent(1)[i].Type = "ATTR_CONTINUATION"
        /\ Sent(1)[k].Type = "ATTR_CONTINUATION"
        /\ Sent(1)[k + 1].Type = "DATA_NIC_HANDLE"

\* ------------------------------------------------------------ value lexers

\* C17: behind a name token whose value is a NIC-handle list, the rest of
\* the line is split at its commas into n >= 1 elements, and the core of
\* an element is what is left of it without the spaces and tabs around it.
\* As long as the elements before it are handles (a letter followed by
\* letters, digits, '-' or '_'), the token sent for element k is a
\* NIC-handle data token with the core of the element as literal and the
\* line of the name token if the element is a handle, and an ILLEGAL token
\* if the element is empty or does not start with a letter; when all n
\* elements are handles, the token after the n-th is no NIC-handle token.
C17_NICHandleList ==
    \A i \in 1..Len(Sent(1)) :
        /\ Sent(1)[i].Type \in
               {objectClasses[n][1] : n \in DOMAIN objectClasses}
                   \cup {classAttributes[n][1] : n \in DOMAIN classAttributes}
        /\ valueStateFnOf(Sent(1)[i].Type) = "lexNICHandleAttrValue"
        /\ HasPrefix([input |-> input, pos |-> EmitsOf(calls[1])[i].at.pos], <<":">>)
        => LET first == EmitsOf(calls[1])[i].at.pos + 2
               P == {p \in first..Len(input) : \A q \in first..p : input[q] /= "\n"}
               n == Cardinality({c \in P : input[c] = ","}) + 1
               Seg(k) == {p \in P : /\ input[p] /= ","
                                    /\ Cardinality({c \in P : c < p /\ input[c] = ","}) = k - 1}
               Core(k) == {p \in Seg(k) : input[p] \notin {" ", "\t"}}
               Min(S) == CHOOSE x \in S : \A y \in S : x <= y
               Max(S) == CHOOSE x \in S : \A y \in S : y <= x
               StartsWithLetter(k) ==
                   /\ Core(k) /= {}
                   /\ input[Min(Core(k))] \in Range(Lowers) \cup Range(Uppers)
               IsHandle(k) ==
                   /\ StartsWithLetter(k)
                   /\ \A p \in Min(Core(k))..Max(Core(k)) :
                          /\ p \in Core(k)
                          /\ input[p] \in Range(Lowers) \cup Range(Uppers) \cup digits
                                              \cup {"-", "_"}
           IN /\ \A k \in 1..n :
                     /\ \A m \in 1..k - 1 : IsHandle(m)
                     /\ Len(Sent(1)) >= i + k
                     => /\ IsHandle(k) =>
                               Sent(1)[i + k] =
                                   [Type |-> "DATA_NIC_HANDLE",
                                    Literal |-> SubSeq(input, Min(Core(k)), Max(Core(k))),
                                    Line |-> Sent(1)[i].Line]
                        /\ ~StartsWithLetter(k) => Sent(1)[i + k].Type = ILLEGAL
              /\ /\ \A m \in 1..n : IsHandle(m)
                 /\ Len(Sent(1)) >= i + n + 1
                 => Sent(1)[i + n + 1].Type /= "DATA_NIC_HANDLE"

C17_Witness ==
    \E i \in 1..Len(Sent(1)) :
        /\ Len(Sent(1)) >= i + 3
        /\ Sent(1)[i].Type = "ATTR_MAINTAINED_BY"
        /\ \A k \in 1..3 : Sent(1)[i + k].Type = "DATA_NIC_HANDLE"
        /\ Sent(1)[i + 2].Literal = <<"B", "-", "2">>
        /\ Sent(1)[i + 3].Literal = <<"C", "_", "3">>

\* C18: behind the name token of auth followed by a colon, the value
\* starts at the first character that is no space or tab. When it starts,
\* in any case of letters, with one of PGPKey-, CRYPT-PW, MD5-pw,
\* MAIL-FROM, NONE and the text behind the prefix is well-formed (8 hex
\* digits; 13 characters of a crypt hash; $1$, 8 salt characters, $ and a
\* hash; local@domain; nothing), the token sent next is the data token of
\* the kind of that prefix with that text as literal (NONE itself for
\* NONE), and the token after it is a name token, a continuation token or
\* EOF. When the value starts with none of the five, the token sent next
\* is ILLEGAL.
C18_AuthDispatch ==
    \A i \in 1..Len(Sent(1)) :
        /\ Sent(1)[i].Type = "ATTR_AUTHENTICATION"
        /\ HasPrefix([input |-> input, pos |-> EmitsOf(calls[1])[i].at.pos], <<":">>)
        /\ Len(Sent(1)) >= i + 1
        => LET AN == Range(Lowers) \cup Range(Uppers) \cup digits
               Skip(p) == CHOOSE q \in p..Len(input) + 1 :
                              /\ q = Len(input) + 1 \/ input[q] \notin {" ", "\t"}
                              /\ \A k \in p..q - 1 : input[k] \in {" ", "\t"}
               End(p) == CHOOSE q \in p..Len(input) + 1 :
                             /\ q = Len(input) + 1 \/ input[q] \in {" ", "\t", "\n", "#"}
                             /\ \A k \in p..q - 1 : input[k] \notin {" ", "\t", "\n", "#"}
               Body(p) == SubSeq(input, p, End(p) - 1)
               v == Skip(EmitsOf(calls[1])[i].at.pos + 2)
               Starts(w) == HasPrefixLower([input |-> input, pos |-> v - 1], w)
               Kinds ==
                   << [prefix |-> <<"p", "g", "p", "k", "e", "y", "-">>,
                       type |-> "DATA_PGP_KEY"],
                      [prefix |-> <<"c", "r", "y", "p", "t", "-", "p", "w">>,
                       type |-> "DATA_CRYPT_PASS"],
                      [prefix |-> <<"m", "d", "5", "-", "p", "w">>,
                       type |-> "DATA_MD5_PASS"],
                      [prefix |-> <<"m", "a", "i", "l", "-", "f", "r", "o", "m">>,
                       type |-> "DATA_MAIL_FROM_PASS"],
                      [prefix |-> <<"n", "o", "n", "e">>,
                       type |-> "DATA_NO_AUTH"] >>
               Text(n) == IF n = 1 THEN Body(v + Len(Kinds[n].prefix))
                          ELSE Body(Skip(v + Len(Kinds[n].prefix)))
               Literal(n) == IF n = 5 THEN SubSeq(input, v, v + 3) ELSE Text(n)
               WellFormed(n) ==
                   LET B == Text(n) IN
                   CASE n = 1 -> /\ Len(B) = 8
                                 /\ \A k \in 1..Len(B) : B[k] \in hexDigits
                     [] n = 2 -> /\ Len(B) = 13
                                 /\ \A k \in 1..Len(B) : B[k] \in AN \cup {"/", "\\"}
                     [] n = 3 -> /\ Len(B) >= 13
                                 /\ B[1] = "$" /\ B[2] = "1" /\ B[3] = "$" /\ B[12] = "$"
                                 /\ \A k \in (4..11) \cup (13..Len(B)) :
                                        B[k] \in AN \cup {".", "/"}
                     [] n = 4 -> \E a \in 2..Len(B) - 1 :
                                     /\ B[a] = "@"
                                     /\ \A k \in 1..a - 1 : B[k] /= "@"
                                     /\ \A k \in a + 1..Len(B) :
                                            B[k] \in AN \cup {".", "-", "_", ":"}
                     [] n = 5 -> End(v + Len(Kinds[n].prefix)) = v + Len(Kinds[n].prefix)
           IN /\ \A n \in DOMAIN Kinds :
                     Starts(Kinds[n].prefix) /\ WellFormed(n)
                     => /\ Sent(1)[i + 1] = [Type |-> Kinds[n].type,
                                             Literal |-> Literal(n),
                                             Line |-> Sent(1)[i].Line]
                        /\ Len(Sent(1)) >= i + 2 =>
                               Sent(1)[i + 2].Type \in
                                   {classAttributes[k][1] : k \in DOMAIN classAttributes}
                                       \cup {objectClasses[k][1] : k \in DOMAIN objectClasses}
                                       \cup {"ATTR_CONTINUATION", EOF}
              /\ (\A n \in DOMAIN Kinds : ~Starts(Kinds[n].prefix))
                     => Sent(1)[i + 1].Type = ILLEGAL

C18_Witness ==
    \E i \in 1..Len(Sent(1)) :
        /\ Len(Sent(1)) >= i + 2
        /\ Sent(1)[i].Type = "ATTR_AUTHENTICATION"
        /\ Sent(1)[i + 1].Type = "DATA_CRYPT_PASS"
        /\ Len(Sent(1)[i + 1].Literal) = 13
        /\ Sent(1)[i + 2].Type = EOF

\* C19: behind the name token of export, import, mp-export or mp-import
\* followed by a colon, the value text runs from the first to the last
\* character of the line that is no space or tab, a comment left out, and
\* its words are the runs of such characters. When the words are to <AS>
\* announce <list> for an export, from <AS> accept ANY or <list> for an
\* import (behind afi <family> or directly for the mp- attributes), <AS>
\* being AS and digits and <list> one or more AS numbers or AS- set names,
\* the token sent next is the policy data token of the kind of the
\* attribute with exactly the value text as literal, and the token after
\* it is no policy data token.
C19_PolicyLiteralIsValueText ==
    \A i \in 1..Len(Sent(1)) :
        /\ Sent(1)[i].Type \in {"ATTR_EXPORT", "ATTR_IMPORT",
                                "ATTR_MULTI_PROTO_EXPORT_POLICY",
                                "ATTR_MULTI_PROTO_IMPORT_POLICY"}
        /\ HasPrefix([input |-> input, pos |-> EmitsOf(calls[1])[i].at.pos], <<":">>)
        /\ Len(Sent(1)) >= i + 1
        => LET first == EmitsOf(calls[1])[i].at.pos + 2
               AN == Range(Lowers) \cup Range(Uppers) \cup digits
               N == {p \in first..Len(input) :
                        /\ \A q \in first..p : input[q] \notin {"\n", "#"}
                        /\ input[p] \notin {" ", "\t"}}
               Min(S) == CHOOSE x \in S : \A y \in S : x <= y
               Max(S) == CHOOSE x \in S : \A y \in S : y <= x
               Starts == {p \in N : p - 1 \notin N}
               nw == Cardinality(Starts)
               At(k) == {p \in N : Cardinality({q \in Starts : q <= p}) = k}
               Word(k) == SubSeq(input, Min(At(k)), Max(At(k)))
               IsASN(w) == /\ Len(w) >= 3
                           /\ SubSeq(w, 1, 2) = <<"A", "S">>
                           /\ \A k \in 3..Len(w) : w[k] \in digits
               IsSet(w) == /\ Len(w) >= 4
                           /\ SubSeq(w, 1, 3) = <<"A", "S", "-">>
                           /\ \A k \in 4..Len(w) : w[k] \in AN \cup {"-", "_"}
                           /\ w[Len(w)] \in AN
               IsList(a) == /\ a <= nw
                            /\ \A k \in a..nw : IsASN(Word(k)) \/ IsSet(Word(k))
               mp == Sent(1)[i].Type \in {"ATTR_MULTI_PROTO_EXPORT_POLICY",
                                          "ATTR_MULTI_PROTO_IMPORT_POLICY"}
               o == IF mp /\ nw >= 2 /\ Word(1) = <<"a", "f", "i">> THEN 2 ELSE 0
               export == Sent(1)[i].Type \in {"ATTR_EXPORT",
                                              "ATTR_MULTI_PROTO_EXPORT_POLICY"}
               WellFormed ==
                   /\ nw >= o + 4
                   /\ o = 2 => \A k \in 1..Len(Word(2)) : Word(2)[k] \in AN \cup {"."}
                   /\ IsASN(Word(o + 2))
                   /\ IF export
                      THEN /\ Word(o + 1) = <<"t", "o">>
                           /\ Word(o + 3) = <<"a", "n", "n", "o", "u", "n", "c", "e">>
                           /\ IsList(o + 4)
                      ELSE /\ Word(o + 1) = <<"f", "r", "o", "m">>
                           /\ Word(o + 3) = <<"a", "c", "c", "e", "p", "t">>
                           /\ \/ IsList(o + 4)
                              \/ nw = o + 4 /\ Word(o + 4) = <<"A", "N", "Y">>
               kind == CASE Sent(1)[i].Type = "ATTR_EXPORT" -> "DATA_EXPORT_POLICY"
                         [] Sent(1)[i].Type = "ATTR_IMPORT" -> "DATA_IMPORT_POLICY"
                         [] Sent(1)[i].Type = "ATTR_MULTI_PROTO_EXPORT_POLICY"
                                -> "DATA_MULTI_PROTO_EXPORT_POLICY"
                         [] OTHER -> "DATA_MULTI_PROTO_IMPORT_POLICY"
           IN WellFormed =>
                  /\ Sent(1)[i + 1] = [Type |-> kind,
                                       Literal |-> SubSeq(input, Min(N), Max(N)),
                                       Line |-> Sent(1)[i].Line]
                  /\ Len(Sent(1)) >= i + 2 =>
                         Sent(1)[i + 2].Type \notin
                             {"DATA_EXPORT_POLICY", "DATA_IMPORT_POLICY",
                              "DATA_MULTI_PROTO_EXPORT_POLICY",
                              "DATA_MULTI_PROTO_IMPORT_POLICY"}

\* C20: behind the name token of aut-num followed by a colon, the value is
\* the run of characters up to the next space, tab, line feed or '#'. A
\* value that is not AS followed by one or more digits without a leading
\* zero is malformed: the token sent next is ILLEGAL, and a DATA_ASN token
\* is only sent for a value that is not malformed and has the whole value
\* as literal, never a prefix of it.
C20_MalformedASNIsIllegal ==
    \A i \in 1..Len(Sent(1)) :
        /\ Sent(1)[i].Type = "CLASS_AUT_NUM"
        /\ HasPrefix([input |-> input, pos |-> EmitsOf(calls[1])[i].at.pos], <<":">>)
        /\ Len(Sent(1)) >= i + 1
        => LET first == EmitsOf(calls[1])[i].at.pos + 2
               N == {p \in first..Len(input) :
                        /\ \A q \in first..p : input[q] \notin {"\n", "#"}
                        /\ input[p] \notin {" ", "\t"}}
               Min(S) == CHOOSE x \in S : \A y \in S : x <= y
               value == IF N = {} THEN <<>>
                        ELSE SubSeq(input, Min(N),
                                    CHOOSE p \in N : /\ p + 1 \notin N
                                                     /\ \A q \in Min(N)..p : q \in N)
               WellFormed == /\ Len(value) >= 3
                             /\ SubSeq(value, 1, 2) = <<"A", "S">>
                             /\ \A k \in 3..Len(value) : value[k] \in digits
                             /\ value[3] /= "0"
           IN /\ ~WellFormed => Sent(1)[i + 1].Type = ILLEGAL
              /\ Sent(1)[i + 1].Type = "DATA_ASN" => Sent(1)[i + 1].Literal = value

\* ------------------------------------------------------ cursor operations

C22_KeywordLiteral ==
    \A i \in 1..Len(Sent(1)) :
        Sent(1)[i].Type \in
            {objectClasses[n][1] : n \in DOMAIN objectClasses}
                \cup {classAttributes[n][1] : n \in DOMAIN classAttributes}
        => /\ Sent(1)[i].Literal =
                  SubSeq(input, EmitsOf(calls[1])[i].at.start + 1,
                         EmitsOf(calls[1])[i].at.pos)
           /\ Len(Sent(1)[i].Literal) = Len(Name(Sent(1)[i].Type))
           /\ \A k \in 1..Len(Sent(1)[i].Literal) :
                  /\ Sent(1)[i].Literal[k] \in Range(Lowers) \cup Range(Uppers) \cup {"-"}
                  /\ ToLowerRune(Sent(1)[i].Literal[k]) = Name(Sent(1)[i].Type)[k]


C24_IllegalCarriesLiteral ==
    \A i \in 1..Len(Sent(1)) :
        Sent(1)[i].Type = ILLEGAL
        => /\ \A j \in 1..Len(Sent(1)) : Sent(1)[j].Type = ILLEGAL => j = i
           /\ Sent(1)[i].Literal =
                  SubSeq(input, EmitsOf(calls[1])[i].at.start + 1,
                         EmitsOf(calls[1])[i].at.pos)
           /\ Sent(1)[i].Literal /= <<>>
           /\ Sent(1)[i].Line = 1 + Cardinality({k \in 1..EmitsOf(calls[1])[i].at.start :
                                                    input[k] = "\n"})


\* C25: for every input text, with or without a final line feed, every
\* acceptExceptRun terminates: if the consumer keeps calling NextToken, the
\* producer eventually has sent its final sentinel, has left the loop of
\* run and has closed the channel.
C25_TerminatesWithoutFinalLF ==
    <>(\/ stopped[1]
       \/ /\ Closed(1)
          /\ state[1] = "done"
          /\ Sent(1) /= <<>>
          /\ IsSentinel(Sent(1)[Len(Sent(1))]))


\* C26: when a call of accept or acceptExcept has returned false, pos and
\* lineNum are what they were before the call, whether the character
\* rejected is a line feed, a character of several bytes or the end of
\* input; when it has returned true, there was a character at pos and pos
\* has advanced by its width in bytes.
C26_AcceptFrame ==
    call.op /= "none" /\ call.pc = "idle"
    => IF call.ok
       THEN /\ call.before.pos < Len(input)
            /\ cur[1].pos = call.before.pos
                            + DecodeRuneInString(input, call.before.pos).width
       ELSE /\ cur[1].pos = call.before.pos
            /\ cur[1].lineNum = call.before.lineNum


\* C27: at every state of the producer 0 <= start <= pos <= len(input):
\* where the producer stands, where it will stand after its pending emits,
\* and at each emit still pending, so that the slice input[start:pos] of
\* every emit is in range; the jumps of pos over a keyword and backup never
\* leave the input nor pass start.
C27_CursorInRange ==
    LET InRange(c) == 0 <= c.start /\ c.start <= c.pos /\ c.pos <= Len(input)
    IN /\ InRange(cur[1])
       /\ InRange(after[1])
       /\ \A i \in 1..Len(pend[1]) : InRange(pend[1][i].at)

\* the producer stands at the emit of the name token of an attribute whose
\* keyword it has jumped over, in a text where the keyword as written is
\* longer than the jump (its k is a character of three bytes)
C27_Witness ==
    /\ pend[1] /= <<>>
    /\ Head(pend[1]).tok.Type = "ATTR_REMARKS"
    /\ cur[1].pos = cur[1].start + Len(Name("ATTR_REMARKS"))
    /\ cur[1].start > 0
    /\ input[cur[1].pos] = "x84"


\* C28: backup is called at most once after each readRune.  A step moves
\* pos back or counts a backup only as the backup of a call of accept or
\* acceptExcept whose readRune was the step before it, with no backup since
\* that readRune; a second backup before the next readRune never happens.
C28_SinglePushback ==
    [][(cur'[1].pos < cur[1].pos \/ call'.unread > call.unread)
       => /\ call.pc = "backup"
          /\ call.unread = 0
          /\ call'.unread = 1
          /\ cur'[1].pos = cur[1].pos - cur[1].lastRuneWidth]_vars

\* a call has read a character of two bytes, has backed up over it and has
\* returned false
C28_Witness ==
    /\ call.pc = "idle"
    /\ call.unread = 1
    /\ ~call.ok
    /\ call.r = "U+00E9"
    /\ cur[1].pos = call.before.pos


\* C29: the literals of the tokens of a run are disjoint substrings of the
\* input in increasing order of position.  Each token sent has the literal
\* input[s:e], with s and e the start and pos of its emit, and s is not
\* before the end offset e of the token sent before it: no character of the
\* input belongs to two tokens.
C29_LiteralsDisjointInOrder ==
    \A i \in 1..Len(Sent(1)) :
        LET e == EmitsOf(calls[1]) IN
        /\ Sent(1)[i].Literal = SubSeq(input, e[i].at.start + 1, e[i].at.pos)
        /\ Len(Sent(1)[i].Literal) = e[i].at.pos - e[i].at.start
        /\ i > 1 => e[i - 1].at.pos <= e[i].at.start

\* three tokens with literals have been sent, and text that belongs to no
\* token lies between the first and the second
C29_Witness ==
    /\ Len(Sent(1)) >= 3
    /\ \A i \in 1..3 : Sent(1)[i].Literal /= <<>>
    /\ EmitsOf(calls[1])[1].at.pos < EmitsOf(calls[1])[2].at.start


\* C30: empty values are suppressed.  Every token sent whose kind is
\* neither EOF nor ILLEGAL has a literal that is not empty; and when the
\* value of a free-form or registry-source attribute is empty (after the
\* colon come only whitespace and the line feed), the token sent after the
\* name token is not a data token of that line: it is the token of the next
\* line, so lexing has gone on.
C30_EmptyValueSuppressed ==
    \A i \in 1..Len(Sent(1)) :
        LET e == EmitsOf(calls[1])
            EmptyValue(p) ==
                \E q \in p + 1..Len(input) :
                    /\ input[p + 1] = ":"
                    /\ input[q] = "\n"
                    /\ \A k \in p + 2..q - 1 : input[k] \in {" ", "\t"}
        IN /\ Sent(1)[i].Type \notin {EOF, ILLEGAL} => Sent(1)[i].Literal /= <<>>
           /\ /\ i > 1
              /\ Sent(1)[i - 1].Type \in
                     {"ATTR_DESCRIPTION", "ATTR_REMARKS", "ATTR_ADDRESS",
                      "ATTR_REGISTRY_SOURCE", "CLASS_PERSON", "CLASS_ROLE"}
              /\ EmptyValue(e[i - 1].at.pos)
              => /\ Sent(1)[i].Type \notin {"DATA_STRING", "DATA_REGISTRY_NAME", ILLEGAL}
                 /\ e[i].at.lineNum > e[i - 1].at.lineNum


\* the name token of a descr attribute whose value is a blank and a tab has
\* been sent, and the token sent after it is the name token of the next
\* line; likewise for a source attribute with nothing after its colon
C30_Witness ==
    \E i \in 2..Len(Sent(1)) :
        /\ Sent(1)[i - 1].Type \in {"ATTR_DESCRIPTION", "ATTR_REGISTRY_SOURCE"}
        /\ Sent(1)[i].Type \in {"ATTR_REMARKS", "ATTR_DESCRIPTION"}
        /\ EmitsOf(calls[1])[i].at.lineNum = 3


\* C31: the continuation target is set whenever it is used.  Every call of
\* lexClassAttributes finds in continuationPath the value lexer that
\* lexAttrName recorded, never nil; so in every call that takes the
\* continuation branch (after the whitespace, the comment and the line feed
\* it skips, the text begins with a blank, a tab or a plus) the call through
\* continuationPath does not panic.
C31_ContinuationPathSet ==
    \A i \in 1..Len(calls[1]) :
        LET c == calls[1][i]
            n == ignore(accept(lexComment(accept(acceptRun(LexerAt(input, c.cur),
                                                           whitespace), pound)), newline))
        IN c.state = "lexClassAttributes"
           => /\ c.cur.continuationPath
                     \in {classAttributes[k][2] : k \in DOMAIN classAttributes}
                             \cup {objectClasses[k][2] : k \in DOMAIN objectClasses}
              /\ \/ HasPrefix(n, <<" ">>)
                 \/ HasPrefix(n, <<"\t">>)
                 \/ HasPrefix(n, Name("ATTR_CONTINUATION"))
                 => /\ c.res.out /= <<>>
                    /\ c.res.out[1].tok.Type = "ATTR_CONTINUATION"
                    /\ c.res.next /= "panic"

\* the continuation token of a line that begins with a plus has been sent,
\* and the value lexer called through continuationPath has sent its token
C31_Witness ==
    \E i \in 2..Len(Sent(1)) :
        /\ Sent(1)[i - 1].Type = "ATTR_CONTINUATION"
        /\ Sent(1)[i - 1].Literal = <<"+">>
        /\ Sent(1)[i].Type = "DATA_STRING"


\* C32: attribute name tokens and continuation tokens are only emitted for
\* text that begins a physical line.  The literal of every such token sent
\* starts at offset 0 of the input or right after a newline character; the
\* rest of a line in whose middle a value lexer has stopped is not matched
\* as a keyword or as a continuation marker.
C32_NamesBeginLines ==
    \A i \in 1..Len(Sent(1)) :
        Sent(1)[i].Type \in {classAttributes[n][1] : n \in DOMAIN classAttributes}
                                \cup {"ATTR_CONTINUATION"}
        => \/ EmitsOf(calls[1])[i].at.start = 0
           \/ input[EmitsOf(calls[1])[i].at.start] \in newline


\* C33: a comment after a value does not change the tokens.  When the scan
\* of a text with a comment has treated it as one (no literal holds the
\* pound sign), the tokens of the whole run, with their kinds, literals and
\* lines, are the tokens of the scan of the same text without the comment
\* (the characters from the pound sign to the end of its line taken out),
\* whatever follows the line, a blank line included.
C33_CommentChangesNothing ==
    LET pounds == {k \in 1..Len(input) : input[k] = "#"}
        h == CHOOSE k \in pounds : \A j \in pounds : k <= j
        e == CHOOSE k \in h..Len(input) :
                 input[k] = "\n" /\ \A j \in h..k - 1 : input[j] /= "\n"
        Stripped == SubSeq(input, 1, h - 1) \o SubSeq(input, e, Len(input))
    IN /\ pounds /= {}
       /\ input[Len(input)] = "\n"
       /\ \A i \in 1..Len(Emitted(calls[1])) :
              \A k \in 1..Len(Emitted(calls[1])[i].Literal) :
                  Emitted(calls[1])[i].Literal[k] /= "#"
       /\ state[1] = "done"
       => Sent(1) = Tokens(Stripped)


\* C34: a changed value made of a well-formed email (a local part without
\* whitespace and '@', an '@', a domain of letters, digits and . - _ :),
\* whitespace and digits.  With exactly 8 digits the two tokens sent after
\* the name token are the email token, whose literal is the local part, the
\* '@' and the domain, and the date token, whose literal is the 8 digits,
\* both on the line of the name token; with fewer than 8 digits the token
\* after the email token is ILLEGAL.
C34_EmailThenDate ==
    \A i \in 1..Len(Sent(1)) :
        LET p == EmitsOf(calls[1])[i].at.pos
            blank == {" ", "\t"}
            domain == Range(Lowers) \cup Range(Uppers) \cup digits \cup {".", "-", "_", ":"}
            Run(from, set) ==
                CHOOSE q \in from..Len(input) :
                    /\ \A k \in from + 1..q : input[k] \in set
                    /\ q = Len(input) \/ input[q + 1] \notin set
            RunExcept(from, set) ==
                CHOOSE q \in from..Len(input) :
                    /\ \A k \in from + 1..q : input[k] \notin set
                    /\ q = Len(input) \/ input[q + 1] \in set
            a == Run(p + 1, blank)
            b == RunExcept(a, blank \cup newline \cup {"@"} \cup NonAscii)
            c == Run(b + 1, domain)
            d == Run(c, blank)
            g == Run(d, digits)
        IN /\ Sent(1)[i].Type = "ATTR_CHANGED_AT_AND_BY"
           /\ p < Len(input) /\ input[p + 1] = ":"
           /\ b > a /\ b < Len(input) /\ input[b + 1] = "@"
           /\ c > b + 1 /\ d > c /\ g - d <= 8
           /\ g = Len(input) \/ input[g + 1] \in blank \cup newline
           /\ Len(Sent(1)) >= i + 2
           => /\ Sent(1)[i + 1] = [Type |-> "DATA_EMAIL",
                                   Literal |-> SubSeq(input, a + 1, c),
                                   Line |-> Sent(1)[i].Line]
              /\ IF g - d = 8
                 THEN Sent(1)[i + 2] = [Type |-> "DATA_DATE",
                                        Literal |-> SubSeq(input, d + 1, g),
                                        Line |-> Sent(1)[i].Line]
                 ELSE Sent(1)[i + 2].Type = ILLEGAL

\* the email token and the date token of a changed value with upper-case
\* letters, a blank and a tab between the two have been sent, and the name
\* token of the next line after them
C34_Witness ==
    \E i \in 1..Len(Sent(1)) :
        /\ Len(Sent(1)) >= i + 3
        /\ Sent(1)[i].Type = "ATTR_CHANGED_AT_AND_BY"
        /\ Sent(1)[i + 1].Type = "DATA_EMAIL"
        /\ Len(Sent(1)[i + 1].Literal) = 14
        /\ Sent(1)[i + 2].Type = "DATA_DATE"
        /\ Sent(1)[i + 3].Type = "ATTR_REGISTRY_SOURCE"


\* C35: an MD5 password is accepted with a salt of 1 to 8 characters.  When
\* the value of an auth attribute is MD5-pw, whitespace, $1$, a salt of 1 to
\* 8 letters, digits, periods and slashes, a dollar sign and a digest of at
\* least one such character, the token sent after the name token is the
\* MD5 password token with the text from the first dollar sign to the end
\* of the digest, not ILLEGAL.
C35_MD5SaltUpTo8 ==
    \A i \in 1..Len(Sent(1)) :
        LET p == EmitsOf(calls[1])[i].at.pos
            blank == {" ", "\t"}
            salt == Range(Lowers) \cup Range(Uppers) \cup digits \cup {".", "/"}
            Run(from, set) ==
                CHOOSE q \in from..Len(input) :
                    /\ \A k \in from + 1..q : input[k] \in set
                    /\ q = Len(input) \/ input[q + 1] \notin set
            a == Run(p + 1, blank)
            b == Run(a + 6, blank)
            c == Run(b + 3, salt)
            d == Run(c + 1, salt)
        IN /\ Sent(1)[i].Type = "ATTR_AUTHENTICATION"
           /\ p < Len(input) /\ input[p + 1] = ":"
           /\ a + 6 <= Len(input)
           /\ SubSeq(input, a + 1, a + 6) = objectStrings["DATA_MD5_PASS"]
           /\ b + 3 <= Len(input)
           /\ SubSeq(input, b + 1, b + 3) = <<"$", "1", "$">>
           /\ c - (b + 3) \in 1..8
           /\ c < Len(input) /\ input[c + 1] = "$"
           /\ d > c + 1
           /\ Len(Sent(1)) >= i + 1
           => Sent(1)[i + 1] = [Type |-> "DATA_MD5_PASS",
                                Literal |-> SubSeq(input, b + 1, d),
                                Line |-> Sent(1)[i].Line]


\* C36: a policy value with an action list written as the grammar states
\* it is one policy token.  When the value of an export or import attribute
\* holds the word action followed by whitespace and a name (and the list is
\* well formed: name = value; repeated, then the announce or accept
\* clause), the token sent after the name token is the policy token of the
\* attribute, whose literal begins at the peer clause, and not ILLEGAL.
C36_ActionListIsOneToken ==
    \A i \in 1..Len(Sent(1)) :
        LET p == EmitsOf(calls[1])[i].at.pos
            lineEnd == CHOOSE q \in p..Len(input) :
                           /\ \A k \in p + 1..q : input[k] /= "\n"
                           /\ q = Len(input) \/ input[q + 1] = "\n"
            word == <<"a", "c", "t", "i", "o", "n", " ">>
            name == Range(Lowers) \cup digits
            Actions == {k \in p + 2..lineEnd - 7 : SubSeq(input, k, k + 6) = word}
            \* name = value; after the word at k, with optional blanks
            Clause(k) ==
                \E n \in k + 8..lineEnd : \E v \in n + 2..lineEnd :
                    /\ \A j \in k + 7..n : input[j] \in name
                    /\ \A j \in n + 1..v - 1 : input[j] \in {" ", "="}
                    /\ Cardinality({j \in n + 1..v - 1 : input[j] = "="}) = 1
                    /\ input[v] \in name
                    /\ \E s \in v + 1..lineEnd :
                           /\ \A j \in v..s - 1 : input[j] \in name
                           /\ input[s] = ";"
        IN /\ Sent(1)[i].Type \in {"ATTR_EXPORT", "ATTR_IMPORT"}
           /\ p < Len(input) /\ input[p + 1] = ":"
           /\ Actions /= {}
           /\ \A k \in Actions : input[k - 1] = " " /\ Clause(k)
           /\ Len(Sent(1)) >= i + 1
           => /\ Sent(1)[i + 1].Type =
                     IF Sent(1)[i].Type = "ATTR_EXPORT"
                     THEN "DATA_EXPORT_POLICY" ELSE "DATA_IMPORT_POLICY"
              /\ Sent(1)[i + 1].Literal /= <<>>
              /\ Sent(1)[i + 1].Literal[1] \in {"t", "f"}


\* C37: an address family outside the vocabulary makes a multi-protocol
\* policy value illegal.  When the value of an mp-import or mp-export
\* attribute begins with afi and a list, the list being the text up to the
\* next blank and its entries the texts between its commas, and an entry at
\* any position is none of the six families (in any case of letters), the
\* token sent after the name token is ILLEGAL, it is the last token of the
\* scan, and no policy token is sent.
C37_UnknownFamilyIsIllegal ==
    \A i \in 1..Len(Sent(1)) :
        LET p == EmitsOf(calls[1])[i].at.pos
            blank == {" ", "\t"}
            Run(from, set) ==
                CHOOSE q \in from..Len(input) :
                    /\ \A k \in from + 1..q : input[k] \in set
                    /\ q = Len(input) \/ input[q + 1] \notin set
            RunExcept(from, set) ==
                CHOOSE q \in from..Len(input) :
                    /\ \A k \in from + 1..q : input[k] \notin set
                    /\ q = Len(input) \/ input[q + 1] \in set
            a == Run(p + 1, blank)
            s == Run(a + 3, blank)
            e == RunExcept(s, blank \cup newline)
            Entries == {xy \in (s + 1..e) \X (s + 1..e) :
                           /\ xy[1] <= xy[2]
                           /\ \A k \in xy[1]..xy[2] : input[k] /= ","
                           /\ xy[1] = s + 1 \/ input[xy[1] - 1] = ","
                           /\ xy[2] = e \/ input[xy[2] + 1] = ","}
            Lowered(xy) == [k \in 1..xy[2] - xy[1] + 1 |->
                               ToLowerRune(input[xy[1] + k - 1])]
        IN /\ Sent(1)[i].Type \in {"ATTR_MULTI_PROTO_EXPORT_POLICY",
                                   "ATTR_MULTI_PROTO_IMPORT_POLICY"}
           /\ p < Len(input) /\ input[p + 1] = ":"
           /\ a + 3 <= Len(input)
           /\ SubSeq(input, a + 1, a + 3) = <<"a", "f", "i">>
           /\ s > a + 3
           /\ \E xy \in Entries : Lowered(xy) \notin Range(afiTypes)
           /\ Len(Sent(1)) >= i + 1
           => /\ Sent(1)[i + 1].Type = ILLEGAL
              /\ Len(Emitted(calls[1])) = i + 1


\* C38: every ordered keyword dispatch keeps the prefix discipline.  Where
\* the class dispatcher or the attribute dispatcher tests its keywords
\* against the text (at the cursor of each call of lexObjectClass, and after
\* the text that each call of lexClassAttributes skips), and where the
\* address-family list is tested (at any offset), a keyword that matches is
\* never a proper prefix of a keyword tested after it that matches too: the
\* first match is the longest.
C38_PrefixDiscipline ==
    LET classNames == [k \in 1..Len(objectClasses) + Len(todoClasses) |->
                          IF k <= Len(objectClasses) THEN Name(objectClasses[k][1])
                          ELSE Name(todoClasses[k - Len(objectClasses)])]
        Disciplined(l, keywords) ==
            \A j \in 1..Len(keywords) : \A k \in j + 1..Len(keywords) :
                /\ HasPrefixLower(l, keywords[j])
                /\ HasPrefixLower(l, keywords[k])
                => ~(/\ Len(keywords[j]) < Len(keywords[k])
                     /\ SubSeq(keywords[k], 1, Len(keywords[j])) = keywords[j])
    IN /\ \A i \in 1..Len(calls[1]) :
              LET c == calls[1][i]
                  l == LexerAt(input, c.cur)
                  n == ignore(accept(lexComment(accept(acceptRun(l, whitespace), pound)),
                                     newline))
              IN IF c.state = "lexObjectClass" THEN Disciplined(l, classNames)
                 ELSE /\ Disciplined(n, Names(classAttributes))
                      /\ FirstMatch(n, Names(classAttributes)) = 0
                         => Disciplined(n, classNames)
       /\ \A p \in 0..Len(input) :
              Disciplined([input |-> input, pos |-> p], afiTypes)


\* texts on which peek, ignore and emit are called: a line feed in front of
\* a letter, U+00E9 between letters, a line feed at the end, and the empty
\* text
FrameInputs ==
    { <<"\n", "a", "A">>,
      <<"a", "xC3", "xA9">>,
      <<"A", "a", "\n">>,
      <<>> }

\* Lex on one of the texts of FrameInputs; no call has been made
InitFrame ==
    /\ input \in FrameInputs
    /\ Started

\* calls of peek, ignore and emit in any order, between calls of accept and
\* acceptExcept that move pos
NextFrame ==
    \/ \E op \in {"accept", "acceptExcept"} :
           \E valid \in {{"a", "b", "c"}, newline} : Enter(op, valid)
    \/ Read
    \/ Backup
    \/ Peek
    \/ Ignore
    \/ \E t \in {"DATA_STRING", EOF} : Emit(t)

FrameSpec == InitFrame /\ [][NextFrame]_vars

\* C39: the frame of peek, ignore and emit.  A call of peek returns the
\* character at pos (eof at the end) and changes no field of the cursor and
\* not the channel; ignore sets start to pos and changes nothing else;
\* emit sets start to pos, changes no other field of the cursor, and appends
\* to the channel one token, whose literal is the text from start to pos.
C39_PeekIgnoreEmitFrame ==
    [][/\ call'.op = "peek"
          => /\ cur' = cur
             /\ chan' = chan
             /\ call'.r = IF cur[1].pos >= Len(input) THEN eof
                          ELSE DecodeRuneInString(input, cur[1].pos).rune
       /\ call'.op = "ignore"
          => /\ cur'[1] = [cur[1] EXCEPT !.start = cur[1].pos]
             /\ chan' = chan
       /\ call'.op = "emit"
          => /\ cur'[1] = [cur[1] EXCEPT !.start = cur[1].pos]
             /\ Len(chan'[1]) = Len(chan[1]) + 1
             /\ SubSeq(chan'[1], 1, Len(chan[1])) = chan[1]
             /\ chan'[1][Len(chan'[1])].Literal
                    = SubSeq(input, cur[1].start + 1, cur[1].pos)]_vars

\* on the text LF a A, an ignore has dropped the line feed and an emit on
\* the second line has then sent the token of the two letters; start is at
\* pos, at the end of the text
C39_Witness ==
    /\ call.op = "emit"
    /\ input = <<"\n", "a", "A">>
    /\ cur[1].lineNum = 2
    /\ cur[1].pos = 3
    /\ cur[1].start = 3
    /\ chan[1] /= <<>>
    /\ chan[1][Len(chan[1])].Literal = <<"a", "A">>

=============================================================================
